---- MODULE Spec2Model ----
(***************************************************************************)
(* The polling coordinator of the Investing Portfolio integration          *)
(* (custom_components/investing_portfolio): the schedule policy, the       *)
(* per-minute de-duplication, the last-known-good cache, the error         *)
(* classification of a fetch cycle and the force-refresh path.             *)
(*                                                                         *)
(* A coordinator runs on one asyncio event loop.  Code between two awaits  *)
(* that suspend is one atomic step; the only await that suspends inside a  *)
(* fetch cycle is the network call of get_portfolio_summary                *)
(* (_notify_error is declared async but contains no await).  A scheduled   *)
(* tick and a button press are separate tasks of that loop.                *)
(*                                                                         *)
(* Beside the coordinator under any host (Spec) the module holds the       *)
(* schedule policy on its own (SpecSchedule), the API client on its own    *)
(* (SpecApi) and with the coordinator (SpecRequests), the setup of a       *)
(* config entry (SpecSetup), two coordinators side by side (SpecTwo) and   *)
(* the coordinator with calls that always end (SpecLive).                  *)
(***************************************************************************)
EXTENDS Integers, Sequences, FiniteSets, TLC

VARIABLES
    now,                    \* datetime.now(): [day, hour, minute]
    options,                \* per coordinator: the schedule options of its entry
    last_successful_data,   \* self._last_successful_data (None or a snapshot)
    last_update_minute,     \* self._last_update_minute
    error_notified,         \* self._error_notified
    data,                   \* self.data, what the entities read
    tick_call,              \* the network call the tick task awaits (0: none)
    force_call,             \* the network call the button task awaits (0: none)
    calls,                  \* network calls issued so far
    persistent_notifications, \* notification ids created in the host
    prev_outcome,           \* history: class of the last completed fetch cycle
    notified_since_success, \* history: a notification was emitted since the last success
    ticked,                 \* history: a tick already ran in the current minute
    tick_calls_now,         \* history: network calls issued by ticks in the current minute
    last_tick,              \* history: the latest tick, while no force refresh has run since
    hass_data,              \* hass.data[DOMAIN]: the entries whose coordinator is registered
    platforms,              \* the entries whose sensor and button platforms are set up
    setup,                  \* per coordinator: how far async_setup_entry has got
    flow,                   \* the onboarding flow in progress: the ConfigFlow object and its step
    config_entries,         \* the config entries onboarding flows have created
    portfolio_name,         \* per coordinator: self.portfolio_name, the name its entry holds
    ev                      \* the step just taken

vars == <<now, options, last_successful_data, last_update_minute, error_notified,
          data, tick_call, force_call, calls, persistent_notifications,
          prev_outcome, notified_since_success, ticked, tick_calls_now, last_tick,
          hass_data, platforms, setup, flow, config_entries, portfolio_name, ev>>

-----------------------------------------------------------------------------
(* Bounds of the model *)

\* network calls a coordinator may issue in one behaviour
MaxCalls == 3
\* the clock runs over days 0..MaxDay
MaxDay == 2
\* weekday of day 0 (datetime.weekday(): 0 = Monday .. 6 = Sunday)
StartWeekday == 4

-----------------------------------------------------------------------------
(* Program constants *)

DEFAULT_UPDATE_WEEKDAY_INTERVAL == 15
DEFAULT_UPDATE_WEEKDAY_START == 9
DEFAULT_UPDATE_WEEKDAY_END == 21
DEFAULT_UPDATE_NIGHT_TIME == <<"2", "2", ":", "0", "5">>
DEFAULT_UPDATE_MORNING_TIME == <<"0", "4", ":", "0", "0">>
\* timeout of the network call of get_portfolio_summary, in seconds
REQUEST_TIMEOUT == 30
\* the value _last_update_minute is constructed with and reset to
NoMinute == -1
\* Python's None
None == [none |-> TRUE]

\* the configured entries: one coordinator each
OneEntry == {"c1"}
TwoEntries == {"c1", "c2"}

\* the coordinators that exist
Coordinators == DOMAIN options

-----------------------------------------------------------------------------
(* Strings as sequences of characters: str.split and int *)

DigitValue(ch) ==
    CASE ch = "0" -> 0 [] ch = "1" -> 1 [] ch = "2" -> 2 [] ch = "3" -> 3
      [] ch = "4" -> 4 [] ch = "5" -> 5 [] ch = "6" -> 6 [] ch = "7" -> 7
      [] ch = "8" -> 8 [] ch = "9" -> 9

RECURSIVE ToInt(_)
ToInt(s) ==
    IF s = <<>> THEN 0
    ELSE 10 * ToInt(SubSeq(s, 1, Len(s) - 1)) + DigitValue(s[Len(s)])

RECURSIVE Split(_, _)
Split(s, sep) ==
    IF \A i \in 1..Len(s) : s[i] # sep THEN <<s>>
    ELSE LET i == CHOOSE k \in 1..Len(s) :
                      s[k] = sep /\ \A j \in 1..(k - 1) : s[j] # sep
         IN  <<SubSeq(s, 1, i - 1)>> \o Split(SubSeq(s, i + 1, Len(s)), sep)

parse_time(time_str) ==
    LET parts == Split(time_str, ":")
    IN  <<ToInt(parts[1]), ToInt(parts[2])>>

-----------------------------------------------------------------------------
(* Numbers: float() of a string, and parse_european_number *)

Digits == {"0", "1", "2", "3", "4", "5", "6", "7", "8", "9"}

\* the character U+20AC, the euro sign
Euro == "EUR"

\* a float, as the decimal it stands for: (-1)^neg * mantissa * 10^exponent
\* with a mantissa that does not end in 0; -0.0 equals 0.0 and is one value
Zero == [kind |-> "finite", neg |-> FALSE, mantissa |-> 0, exponent |-> 0]
NaN == [kind |-> "nan", neg |-> FALSE, mantissa |-> 0, exponent |-> 0]
Infinity(neg) == [kind |-> "inf", neg |-> neg, mantissa |-> 0, exponent |-> 0]
ValueError == [kind |-> "ValueError", neg |-> FALSE, mantissa |-> 0, exponent |-> 0]

RECURSIVE Finite(_, _, _)
Finite(neg, mantissa, exponent) ==
    IF mantissa = 0 THEN Zero
    ELSE IF mantissa % 10 = 0 THEN Finite(neg, mantissa \div 10, exponent + 1)
    ELSE [kind |-> "finite", neg |-> neg, mantissa |-> mantissa, exponent |-> exponent]

\* -x
Negate(x) ==
    IF (x.kind = "finite" /\ x.mantissa # 0) \/ x.kind = "inf"
    THEN [x EXCEPT !.neg = ~x.neg] ELSE x

\* the first place of ch in s, 0 when there is none
Find(s, chars) ==
    IF \E i \in 1..Len(s) : s[i] \in chars
    THEN CHOOSE i \in 1..Len(s) : s[i] \in chars /\ \A j \in 1..(i - 1) : s[j] \notin chars
    ELSE 0

AllDigits(s) == \A i \in 1..Len(s) : s[i] \in Digits

\* float(s) for a string without whitespace and underscores: an optional
\* sign, then nan, inf, infinity, or digits with at most one point and an
\* optional exponent; anything else is a ValueError
float(s) ==
    LET signed == s # <<>> /\ s[1] \in {"+", "-"}
        neg    == signed /\ s[1] = "-"
        body   == IF signed THEN Tail(s) ELSE s
        epos   == Find(body, {"e", "E"})
        number == IF epos = 0 THEN body ELSE SubSeq(body, 1, epos - 1)
        power  == IF epos = 0 THEN <<>> ELSE SubSeq(body, epos + 1, Len(body))
        point  == Find(number, {"."})
        int    == IF point = 0 THEN number ELSE SubSeq(number, 1, point - 1)
        frac   == IF point = 0 THEN <<>> ELSE SubSeq(number, point + 1, Len(number))
        psign  == power # <<>> /\ power[1] \in {"+", "-"}
        pdigs  == IF psign THEN Tail(power) ELSE power
        pvalue == IF psign /\ power[1] = "-" THEN 0 - ToInt(pdigs) ELSE ToInt(pdigs)
    IN  IF body = <<"n", "a", "n">> THEN NaN
        ELSE IF body \in {<<"i", "n", "f">>, <<"i", "n", "f", "i", "n", "i", "t", "y">>}
             THEN Infinity(neg)
        ELSE IF /\ AllDigits(int) /\ AllDigits(frac) /\ Len(int) + Len(frac) > 0
                /\ epos # 0 => (AllDigits(pdigs) /\ pdigs # <<>>)
             THEN Finite(neg, ToInt(int \o frac),
                         (IF epos = 0 THEN 0 ELSE pvalue) - Len(frac))
        ELSE ValueError

\* str.replace(old, new) for one character
RECURSIVE replace(_, _, _)
replace(s, old, new) ==
    IF s = <<>> THEN <<>>
    ELSE (IF Head(s) = old THEN new ELSE <<Head(s)>>) \o replace(Tail(s), old, new)

\* str.strip()
RECURSIVE strip(_)
strip(s) ==
    IF s = <<>> THEN s
    ELSE IF Head(s) = " " THEN strip(Tail(s))
    ELSE IF s[Len(s)] = " " THEN strip(SubSeq(s, 1, Len(s) - 1))
    ELSE s

\* str.lstrip(chars)
RECURSIVE lstrip(_, _)
lstrip(s, chars) ==
    IF s # <<>> /\ Head(s) \in chars THEN lstrip(Tail(s), chars) ELSE s

\* parse_european_number leaving the percent sign in place
parse_european_number_keeps_percent(value) ==
    IF value = <<>> THEN Zero
    ELSE LET cleaned1 == strip(replace(replace(value, Euro, <<>>), " ", <<>>))
             is_negative == cleaned1 # <<>> /\ Head(cleaned1) = "-"
             cleaned2 == lstrip(cleaned1, {"+", "-"})
             cleaned3 == replace(replace(cleaned2, ".", <<>>), ",", <<".">>)
             result == float(cleaned3)
         IN  IF result = ValueError THEN Zero
             ELSE IF is_negative THEN Negate(result) ELSE result

parse_european_number(value) ==
    IF value = <<>> THEN Zero
    ELSE LET cleaned1 == strip(replace(replace(replace(value, "%", <<>>),
                                               Euro, <<>>), " ", <<>>))
             is_negative == cleaned1 # <<>> /\ Head(cleaned1) = "-"
             cleaned2 == lstrip(cleaned1, {"+", "-"})
             cleaned3 == replace(replace(cleaned2, ".", <<>>), ",", <<".">>)
             result == float(cleaned3)
         IN  IF result = ValueError THEN Zero
             ELSE IF is_negative THEN Negate(result) ELSE result

-----------------------------------------------------------------------------
(* The clock *)

\* the instants of a day at which the model lets the clock stand
SampleTimes == {<<4, 0>>, <<10, 15>>, <<10, 16>>, <<22, 5>>}

Instants == {[day |-> d, hour |-> t[1], minute |-> t[2]] :
                d \in 0..MaxDay, t \in SampleTimes}

TimeKey(t) == (t.day * 24 + t.hour) * 60 + t.minute

Weekday(t) == (StartWeekday + t.day) % 7

-----------------------------------------------------------------------------
(* The schedule policy *)

DefaultOptions ==
    [update_weekday_interval |-> DEFAULT_UPDATE_WEEKDAY_INTERVAL,
     update_weekday_start    |-> DEFAULT_UPDATE_WEEKDAY_START,
     update_weekday_end      |-> DEFAULT_UPDATE_WEEKDAY_END,
     update_night_time       |-> DEFAULT_UPDATE_NIGHT_TIME,
     update_morning_time     |-> DEFAULT_UPDATE_MORNING_TIME]

\* the options flow takes any two "HH:MM" strings: here both daily updates
\* are set to the same time
SameTimeOptions ==
    [DefaultOptions EXCEPT !.update_night_time = DEFAULT_UPDATE_MORNING_TIME]

\* the options a config entry may carry
Schedules == {DefaultOptions, SameTimeOptions}

\* should_update counting Saturday as a trading day
should_update_saturday(t, o) ==
    LET weekday == Weekday(t)
        hour    == t.hour
        minute  == t.minute
        morning == parse_time(o.update_morning_time)
        night   == parse_time(o.update_night_time)
    IN  IF hour = morning[1] /\ minute = morning[2] THEN TRUE
        ELSE IF hour = night[1] /\ minute = night[2] THEN TRUE
        ELSE IF /\ weekday <= 5
                /\ o.update_weekday_start <= hour
                /\ hour < o.update_weekday_end
                /\ minute % o.update_weekday_interval = 0 THEN TRUE
        ELSE FALSE

\* should_update reading a window whose start is not before its end as one
\* that wraps around midnight
should_update_wrapping(t, o) ==
    LET weekday == Weekday(t)
        hour    == t.hour
        minute  == t.minute
        morning == parse_time(o.update_morning_time)
        night   == parse_time(o.update_night_time)
        inside  == IF o.update_weekday_start < o.update_weekday_end
                   THEN o.update_weekday_start <= hour /\ hour < o.update_weekday_end
                   ELSE o.update_weekday_start <= hour \/ hour < o.update_weekday_end
    IN  IF hour = morning[1] /\ minute = morning[2] THEN TRUE
        ELSE IF hour = night[1] /\ minute = night[2] THEN TRUE
        ELSE IF /\ weekday < 5
                /\ inside
                /\ minute % o.update_weekday_interval = 0 THEN TRUE
        ELSE FALSE

should_update(t, o) ==
    LET weekday == Weekday(t)
        hour    == t.hour
        minute  == t.minute
        morning == parse_time(o.update_morning_time)
        night   == parse_time(o.update_night_time)
    IN  IF hour = morning[1] /\ minute = morning[2] THEN TRUE
        ELSE IF hour = night[1] /\ minute = night[2] THEN TRUE
        ELSE IF /\ weekday < 5
                /\ o.update_weekday_start <= hour
                /\ hour < o.update_weekday_end
                /\ minute % o.update_weekday_interval = 0 THEN TRUE
        ELSE FALSE

should_update_now(c) == should_update(now, options[c])

current_minute == now.hour * 60 + now.minute

-----------------------------------------------------------------------------
(* The API client: login, get_portfolios, get_portfolio_summary *)

\* exception classes and their base class
BaseClass(cls) ==
    CASE cls = "TokenExpiredError"      -> "AuthenticationError"
      [] cls = "AuthenticationError"    -> "InvestingAPIError"
      [] cls = "PortfolioNotFoundError" -> "PortfolioError"
      [] cls = "PortfolioError"         -> "InvestingAPIError"
      [] cls = "InvestingAPIError"      -> "Exception"
      [] cls = "TimeoutError"           -> "Exception"
      [] OTHER                          -> "Exception"

RECURSIVE IsInstance(_, _)
IsInstance(cls, target) ==
    IF cls = target THEN TRUE
    ELSE IF cls = "Exception" THEN FALSE
    ELSE IsInstance(BaseClass(cls), target)

\* a JSON object is the set of its <<key, value>> pairs
HasKey(d, k) == \E p \in d : p[1] = k

\* dict.get(k, default)
Get(d, k, default) == IF HasKey(d, k) THEN (CHOOSE p \in d : p[1] = k)[2] ELSE default

\* what the upstream may answer to one request; transport = FALSE is a
\* timeout or connection error raised by session.get; screen_data is the
\* object data[0].screen_data, empty when the key is missing
Response(transport, status, system_status, code, data_len, screen_data) ==
    [transport |-> transport, status |-> status, system_status |-> system_status,
     message_error_code |-> code, data_len |-> data_len, screen_data |-> screen_data]

\* a summary with all the fields the client reads, and one it does not read
FullSummary ==
    {<<"MarketValue", <<"1", ".", "2", "3", "4", ",", "5", "6">>>>,
     <<"OpenPL", <<"-", "1", "2", ",", "5", "0">>>>,
     <<"OpenPLPerc", <<"-", "1", ",", "0", "1", "%">>>>,
     <<"DailyPL", <<"3", ",", "2", "0">>>>,
     <<"DailyPLPerc", <<"0", ",", "2", "6", "%">>>>,
     <<"Currency", <<"E", "U", "R">>>>}

\* a summary without four of the fields
PartialSummary == {<<"MarketValue", <<"7", "5", "0">>>>}

Responses ==
    {Response(TRUE, 200, "ok", "", 1, FullSummary),
     Response(FALSE, 0, "", "", 0, {}),
     Response(TRUE, 500, "", "", 0, {}),
     Response(TRUE, 200, "failed", "1001", 0, {}),
     Response(TRUE, 200, "failed", "203", 0, {}),
     Response(TRUE, 200, "failed", "500", 0, {}),
     Response(TRUE, 200, "ok", "", 0, {}),
     Response(TRUE, 200, "ok", "", 1, {})}

Raise(cls) == [raised |-> TRUE, error |-> cls]

Return(value) == [raised |-> FALSE, error |-> "none", value |-> value]

\* the summary built from a non-empty screen_data
summary_fields(summary) ==
    [market_value  |-> Get(summary, "MarketValue", <<"0">>),
     open_pl       |-> Get(summary, "OpenPL", <<"0">>),
     open_pl_perc  |-> Get(summary, "OpenPLPerc", <<"0">>),
     daily_pl      |-> Get(summary, "DailyPL", <<"0">>),
     daily_pl_perc |-> Get(summary, "DailyPLPerc", <<"0">>),
     raw_data      |-> summary]

\* get_portfolio_summary reporting error code 203 as a generic failure
get_portfolio_summary_no_203(resp) ==
    IF ~resp.transport THEN Raise("TimeoutError")
    ELSE IF resp.status # 200 THEN Raise("PortfolioError")
    ELSE IF resp.system_status = "failed" THEN
        IF resp.message_error_code = "1001" THEN Raise("TokenExpiredError")
        ELSE Raise("PortfolioError")
    ELSE IF resp.data_len = 0 THEN Raise("PortfolioError")
    ELSE IF resp.screen_data = {} THEN Raise("PortfolioError")
    ELSE Return(summary_fields(resp.screen_data))

get_portfolio_summary(resp) ==
    IF ~resp.transport THEN Raise("TimeoutError")
    ELSE IF resp.status # 200 THEN Raise("PortfolioError")
    ELSE IF resp.system_status = "failed" THEN
        IF resp.message_error_code = "1001" THEN Raise("TokenExpiredError")
        ELSE IF resp.message_error_code = "203" THEN Raise("PortfolioNotFoundError")
        ELSE Raise("PortfolioError")
    ELSE IF resp.data_len = 0 THEN Raise("PortfolioError")
    ELSE IF resp.screen_data = {} THEN Raise("PortfolioError")
    ELSE Return(summary_fields(resp.screen_data))

\* the answer to the login request: data is the object under "data"
LoginResponse(transport, status, system_status, data_object) ==
    [transport |-> transport, status |-> status, system_status |-> system_status,
     data |-> data_object]

\* login without the test for the token
login_no_token_check(resp) ==
    IF ~resp.transport THEN Raise("TimeoutError")
    ELSE IF resp.status # 200 THEN Raise("AuthenticationError")
    ELSE IF resp.system_status = "error" THEN Raise("AuthenticationError")
    ELSE IF HasKey(resp.data, "errors") THEN Raise("AuthenticationError")
    ELSE Return([token          |-> Get(resp.data, "token", "None"),
                 user_id        |-> Get(resp.data, "user_ID", "None"),
                 user_email     |-> Get(resp.data, "user_email", "None"),
                 user_firstname |-> Get(resp.data, "user_firstname", "None"),
                 user_lastname  |-> Get(resp.data, "user_lastname", "None")])

login(resp) ==
    IF ~resp.transport THEN Raise("TimeoutError")
    ELSE IF resp.status # 200 THEN Raise("AuthenticationError")
    ELSE IF resp.system_status = "error" THEN Raise("AuthenticationError")
    ELSE IF HasKey(resp.data, "errors") THEN Raise("AuthenticationError")
    ELSE IF ~HasKey(resp.data, "token") THEN Raise("AuthenticationError")
    ELSE Return([token          |-> Get(resp.data, "token", "None"),
                 user_id        |-> Get(resp.data, "user_ID", "None"),
                 user_email     |-> Get(resp.data, "user_email", "None"),
                 user_firstname |-> Get(resp.data, "user_firstname", "None"),
                 user_lastname  |-> Get(resp.data, "user_lastname", "None")])

\* the answer to the portfolio list request: portfolio is the list
\* data[0].screen_data.portfolio, empty when a key on the way is missing
PortfoliosResponse(transport, status, system_status, code, data_len, portfolio) ==
    [transport |-> transport, status |-> status, system_status |-> system_status,
     message_error_code |-> code, data_len |-> data_len, portfolio |-> portfolio]

IsPosition(p) == Get(p, "portfolioType", "None") = "position"

\* get_portfolios keeping every entry that has a type
get_portfolios_any_type(resp, position_only) ==
    IF ~resp.transport THEN Raise("TimeoutError")
    ELSE IF resp.status # 200 THEN Raise("PortfolioError")
    ELSE IF resp.system_status = "failed" THEN
        IF resp.message_error_code = "1001" THEN Raise("TokenExpiredError")
        ELSE Raise("PortfolioError")
    ELSE IF resp.data_len = 0 THEN Return(<<>>)
    ELSE IF position_only
         THEN Return(SelectSeq(resp.portfolio, LAMBDA p : HasKey(p, "portfolioType")))
    ELSE Return(resp.portfolio)

get_portfolios(resp, position_only) ==
    IF ~resp.transport THEN Raise("TimeoutError")
    ELSE IF resp.status # 200 THEN Raise("PortfolioError")
    ELSE IF resp.system_status = "failed" THEN
        IF resp.message_error_code = "1001" THEN Raise("TokenExpiredError")
        ELSE Raise("PortfolioError")
    ELSE IF resp.data_len = 0 THEN Return(<<>>)
    ELSE IF position_only THEN Return(SelectSeq(resp.portfolio, IsPosition))
    ELSE Return(resp.portfolio)

-----------------------------------------------------------------------------
(* The fetch-and-parse cycle *)

\* the except clause of _fetch_data that handles an exception of class cls
ExceptClause(cls) ==
    IF IsInstance(cls, "TokenExpiredError") THEN "TokenExpiredError"
    ELSE IF IsInstance(cls, "PortfolioNotFoundError") THEN "PortfolioNotFoundError"
    ELSE IF IsInstance(cls, "PortfolioError") THEN "PortfolioError"
    ELSE "Exception"

\* parsed_data: the snapshot built from the summary that network call `call`
\* returned (the numeric fields of a summary are strings by the client's
\* contract, so parsing the five fields cannot raise)
parsed_data(c, call) == [portfolio |-> c, call |-> call]

\* stands for the character U+00E9, e with acute accent
EAcute == "e-acute"

\* unicodedata.normalize('NFD', ch) without the characters of category Mn
Unaccent(ch) == IF ch = EAcute THEN "e" ELSE ch

ascii_lowercase ==
    <<"a", "b", "c", "d", "e", "f", "g", "h", "i", "j", "k", "l", "m",
      "n", "o", "p", "q", "r", "s", "t", "u", "v", "w", "x", "y", "z">>

ascii_uppercase ==
    <<"A", "B", "C", "D", "E", "F", "G", "H", "I", "J", "K", "L", "M",
      "N", "O", "P", "Q", "R", "S", "T", "U", "V", "W", "X", "Y", "Z">>

\* str.lower of a character
lower(ch) ==
    IF \E i \in 1..26 : ascii_uppercase[i] = ch
    THEN ascii_lowercase[CHOOSE i \in 1..26 : ascii_uppercase[i] = ch]
    ELSE ch

\* str.isalnum of a character
isalnum(ch) ==
    \/ \E i \in 1..26 : ch \in {ascii_lowercase[i], ascii_uppercase[i]}
    \/ ch \in Digits \cup {EAcute}

\* normalize_portfolio_name: accents removed, lower case, spaces replaced by
\* underscores, then every character that is neither alphanumeric nor an
\* underscore removed
normalize_portfolio_name(name) ==
    LET ascii_name == [i \in 1..Len(name) |-> Unaccent(name[i])]
        result == [i \in 1..Len(name) |->
                      IF lower(ascii_name[i]) = " " THEN "_" ELSE lower(ascii_name[i])]
    IN  SelectSeq(result, LAMBDA ch : isalnum(ch) \/ ch = "_")

\* the names of the entries when the names do not matter
DefaultNames(S) ==
    [c \in S |-> IF c = "c1" THEN <<"M", "a", "i", "n">>
                 ELSE <<"S", "e", "c", "o", "n", "d">>]

\* the name of the coordinator, DataUpdateCoordinator(name=...)
coordinator_name(c) ==
    <<"investing_portfolio", normalize_portfolio_name(portfolio_name[c])>>

\* the notification id of a coordinator
notification_id(c) ==
    <<"investing_portfolio", normalize_portfolio_name(portfolio_name[c]), "error">>

\* fetch_data with the test of _error_notified left out
fetch_data_always_notifies(c, resp, call) ==
    LET summary == get_portfolio_summary(resp)
    IN  IF summary.raised THEN
            IF ExceptClause(summary.error) = "TokenExpiredError" THEN
                [outcome        |-> "TokenExpiredError",
                 notify         |-> TRUE,
                 error_notified |-> TRUE,
                 last_successful_data |-> last_successful_data[c],
                 raises         |-> "UpdateFailed"]
            ELSE
                [outcome        |-> ExceptClause(summary.error),
                 notify         |-> FALSE,
                 error_notified |-> error_notified[c],
                 last_successful_data |-> last_successful_data[c],
                 raises         |-> "UpdateFailed"]
        ELSE
            [outcome        |-> "success",
             notify         |-> FALSE,
             error_notified |-> FALSE,
             last_successful_data |-> parsed_data(c, call),
             raises         |-> "none"]

\* fetch_data clearing _error_notified in every handler but the
\* TokenExpiredError one
fetch_data_failure_clears_flag(c, resp, call) ==
    LET summary == get_portfolio_summary(resp)
    IN  IF summary.raised THEN
            IF ExceptClause(summary.error) = "TokenExpiredError" THEN
                [outcome        |-> "TokenExpiredError",
                 notify         |-> ~error_notified[c],
                 error_notified |-> TRUE,
                 last_successful_data |-> last_successful_data[c],
                 raises         |-> "UpdateFailed"]
            ELSE
                [outcome        |-> ExceptClause(summary.error),
                 notify         |-> FALSE,
                 error_notified |-> FALSE,
                 last_successful_data |-> last_successful_data[c],
                 raises         |-> "UpdateFailed"]
        ELSE
            [outcome        |-> "success",
             notify         |-> FALSE,
             error_notified |-> FALSE,
             last_successful_data |-> parsed_data(c, call),
             raises         |-> "none"]

\* fetch_data dropping the cache when the cycle fails
fetch_data_failure_drops_cache(c, resp, call) ==
    LET summary == get_portfolio_summary(resp)
    IN  IF summary.raised THEN
            IF ExceptClause(summary.error) = "TokenExpiredError" THEN
                [outcome        |-> "TokenExpiredError",
                 notify         |-> ~error_notified[c],
                 error_notified |-> TRUE,
                 last_successful_data |-> None,
                 raises         |-> "UpdateFailed"]
            ELSE
                [outcome        |-> ExceptClause(summary.error),
                 notify         |-> FALSE,
                 error_notified |-> error_notified[c],
                 last_successful_data |-> None,
                 raises         |-> "UpdateFailed"]
        ELSE
            [outcome        |-> "success",
             notify         |-> FALSE,
             error_notified |-> FALSE,
             last_successful_data |-> parsed_data(c, call),
             raises         |-> "none"]

\* _fetch_data from the return of its network call on: the outcome of the
\* cycle and the coordinator fields after it
\* _fetch_data treating a portfolio that is not found like an expired token
fetch_data_not_found_notifies(c, resp, call) ==
    LET summary == get_portfolio_summary(resp)
    IN  IF summary.raised THEN
            IF ExceptClause(summary.error) \in {"TokenExpiredError", "PortfolioNotFoundError"} THEN
                [outcome        |-> ExceptClause(summary.error),
                 notify         |-> ~error_notified[c],
                 error_notified |-> TRUE,
                 last_successful_data |-> last_successful_data[c],
                 raises         |-> "UpdateFailed"]
            ELSE
                [outcome        |-> ExceptClause(summary.error),
                 notify         |-> FALSE,
                 error_notified |-> error_notified[c],
                 last_successful_data |-> last_successful_data[c],
                 raises         |-> "UpdateFailed"]
        ELSE
            [outcome        |-> "success",
             notify         |-> FALSE,
             error_notified |-> FALSE,
             last_successful_data |-> parsed_data(c, call),
             raises         |-> "none"]

\* fetch_data whose TokenExpiredError clause notifies without setting
\* _error_notified
fetch_data_notifies_without_flag(c, resp, call) ==
    LET summary == get_portfolio_summary(resp)
    IN  IF summary.raised THEN
            [outcome        |-> ExceptClause(summary.error),
             notify         |-> ExceptClause(summary.error) = "TokenExpiredError"
                                /\ ~error_notified[c],
             error_notified |-> error_notified[c],
             last_successful_data |-> last_successful_data[c],
             raises         |-> "UpdateFailed"]
        ELSE
            [outcome        |-> "success",
             notify         |-> FALSE,
             error_notified |-> FALSE,
             last_successful_data |-> parsed_data(c, call),
             raises         |-> "none"]

\* fetch_data setting _error_notified in every except clause
fetch_data_every_failure_sets_flag(c, resp, call) ==
    LET summary == get_portfolio_summary(resp)
    IN  IF summary.raised THEN
            [outcome        |-> ExceptClause(summary.error),
             notify         |-> ExceptClause(summary.error) = "TokenExpiredError"
                                /\ ~error_notified[c],
             error_notified |-> TRUE,
             last_successful_data |-> last_successful_data[c],
             raises         |-> "UpdateFailed"]
        ELSE
            [outcome        |-> "success",
             notify         |-> FALSE,
             error_notified |-> FALSE,
             last_successful_data |-> parsed_data(c, call),
             raises         |-> "none"]

fetch_data(c, resp, call) ==
    LET summary == get_portfolio_summary(resp)
    IN  IF summary.raised THEN
            IF ExceptClause(summary.error) = "TokenExpiredError" THEN
                [outcome        |-> "TokenExpiredError",
                 notify         |-> ~error_notified[c],
                 error_notified |-> TRUE,
                 last_successful_data |-> last_successful_data[c],
                 raises         |-> "UpdateFailed"]
            ELSE
                [outcome        |-> ExceptClause(summary.error),
                 notify         |-> FALSE,
                 error_notified |-> error_notified[c],
                 last_successful_data |-> last_successful_data[c],
                 raises         |-> "UpdateFailed"]
        ELSE
            [outcome        |-> "success",
             notify         |-> FALSE,
             error_notified |-> FALSE,
             last_successful_data |-> parsed_data(c, call),
             raises         |-> "none"]

-----------------------------------------------------------------------------
(* The coordinator *)

\* a step as the outside sees it: the operation, whether it issued a network
\* call, whether it created a notification, how the fetch cycle ended; first:
\* the tick is the first of its minute; renotified: the notification replaces
\* an earlier one; prev: how the fetch cycle before this one ended; raises: the
\* class of the exception the operation ended with
Event(op, c, decision, net, notified, outcome, call) ==
    [op |-> op, c |-> c, decision |-> decision, net |-> net,
     notified |-> notified, outcome |-> outcome, call |-> call,
     first |-> FALSE, renotified |-> FALSE, prev |-> "none", raises |-> "none"]

NoTick == [minute |-> NoMinute, fetched |-> FALSE, stored |-> 0]

\* no onboarding flow is in progress
NoFlow == [step |-> "none", awaiting |-> None]

\* the coordinators of the entries in S as __init__ leaves them, in a host
\* that has registered nothing yet and runs no onboarding flow
Constructed(S) ==
    /\ last_successful_data = [c \in S |-> None]
    /\ last_update_minute = [c \in S |-> NoMinute]
    /\ error_notified = [c \in S |-> FALSE]
    /\ data = [c \in S |-> None]
    /\ tick_call = [c \in S |-> 0]
    /\ force_call = [c \in S |-> 0]
    /\ calls = [c \in S |-> 0]
    /\ persistent_notifications = {}
    /\ prev_outcome = [c \in S |-> "none"]
    /\ notified_since_success = [c \in S |-> FALSE]
    /\ ticked = [c \in S |-> FALSE]
    /\ tick_calls_now = [c \in S |-> 0]
    /\ last_tick = [c \in S |-> NoTick]
    /\ hass_data = {}
    /\ platforms = {}
    /\ setup = [c \in S |-> "constructed"]
    /\ flow = NoFlow
    /\ config_entries = {}

Init ==
    /\ now \in {t \in Instants : t.day = 0}
    /\ options \in [OneEntry -> Schedules]
    /\ Constructed(DOMAIN options)
    /\ portfolio_name = DefaultNames(DOMAIN options)
    /\ ev = Event("init", "", "none", FALSE, FALSE, "none", 0)

\* the clock reaches the next instant; a network call ends or times out
\* within REQUEST_TIMEOUT seconds, so while one is pending the clock gets no
\* further than the next minute
Advance ==
    /\ \E t \in Instants :
          /\ TimeKey(t) > TimeKey(now)
          /\ (\E c \in Coordinators : tick_call[c] # 0 \/ force_call[c] # 0) =>
                (TimeKey(t) - TimeKey(now) - 1) * 60 < REQUEST_TIMEOUT
          /\ \A u \in Instants : TimeKey(u) > TimeKey(now) => TimeKey(t) <= TimeKey(u)
          /\ now' = t
    /\ ticked' = [c \in Coordinators |-> FALSE]
    /\ tick_calls_now' = [c \in Coordinators |-> 0]
    /\ ev' = Event("advance", "", "none", FALSE, FALSE, "none", 0)
    /\ UNCHANGED <<options, last_successful_data, last_update_minute, error_notified,
                   data, tick_call, force_call, calls, persistent_notifications,
                   prev_outcome, notified_since_success, last_tick>>

\* TickDecision without the same-minute test
TickDecisionNoDedup(c) ==
    IF ~should_update_now(c) /\ last_successful_data[c] # None THEN "cached"
    ELSE "fetch"

\* TickDecision refusing the first run when the schedule says no
TickDecisionNoFirstRun(c) ==
    IF current_minute = last_update_minute[c] THEN
        IF last_successful_data[c] # None THEN "cached" ELSE "waiting"
    ELSE IF ~should_update_now(c) THEN
        IF last_successful_data[c] # None THEN "cached" ELSE "waiting"
    ELSE "fetch"

\* TickDecision ignoring the schedule decision
TickDecisionIgnoresSchedule(c) ==
    IF current_minute = last_update_minute[c] THEN
        IF last_successful_data[c] # None THEN "cached" ELSE "waiting"
    ELSE "fetch"

\* TickDecision fetching in the recorded minute when nothing is cached
TickDecisionFetchesWhenEmpty(c) ==
    IF current_minute = last_update_minute[c] /\ last_successful_data[c] # None
    THEN "cached"
    ELSE IF ~should_update_now(c) /\ last_successful_data[c] # None THEN "cached"
    ELSE "fetch"

\* what _async_update_data does before it awaits: "cached" returns the cache,
\* "waiting" raises UpdateFailed("Waiting for scheduled update"), "fetch"
\* records the minute and calls _fetch_data
TickDecision(c) ==
    IF current_minute = last_update_minute[c] THEN
        IF last_successful_data[c] # None THEN "cached" ELSE "waiting"
    ELSE IF ~should_update_now(c) /\ last_successful_data[c] # None THEN "cached"
    ELSE "fetch"

\* _async_update_data up to the network call (or to its return, when it does
\* not fetch); the host starts a tick only when the previous one has ended
TickStart(c) ==
    /\ tick_call[c] = 0
    /\ LET d == TickDecision(c) IN
        /\ d = "fetch" => calls[c] < MaxCalls
        /\ IF d = "fetch" THEN
              /\ last_update_minute' = [last_update_minute EXCEPT ![c] = current_minute]
              /\ calls' = [calls EXCEPT ![c] = @ + 1]
              /\ tick_call' = [tick_call EXCEPT ![c] = calls[c] + 1]
              /\ tick_calls_now' = [tick_calls_now EXCEPT ![c] = @ + 1]
              /\ data' = data
           ELSE
              /\ data' = [data EXCEPT ![c] =
                            IF d = "cached" THEN last_successful_data[c] ELSE @]
              /\ UNCHANGED <<last_update_minute, calls, tick_call, tick_calls_now>>
        /\ ev' = [Event("tick", c, d, d = "fetch", FALSE, "none",
                        IF d = "fetch" THEN calls[c] + 1 ELSE 0)
                     EXCEPT !.first = ~ticked[c],
                            !.raises = IF d = "waiting" THEN "UpdateFailed" ELSE "none"]
        /\ last_tick' = [last_tick EXCEPT ![c] =
                            [minute |-> current_minute, fetched |-> d = "fetch",
                             stored |-> 0]]
    /\ ticked' = [ticked EXCEPT ![c] = TRUE]
    /\ UNCHANGED <<now, options, last_successful_data, error_notified, force_call,
                   persistent_notifications, prev_outcome, notified_since_success>>

\* FetchEffects with _error_notified an attribute of the class, shared by all
\* coordinators
FetchEffectsSharedFlag(c, r) ==
    /\ error_notified' = [d \in Coordinators |-> r.error_notified]
    /\ last_successful_data' =
          [last_successful_data EXCEPT ![c] = r.last_successful_data]
    /\ persistent_notifications' =
          IF r.notify THEN persistent_notifications \cup {notification_id(c)}
          ELSE persistent_notifications
    /\ prev_outcome' = [prev_outcome EXCEPT ![c] = r.outcome]
    /\ notified_since_success' =
          [notified_since_success EXCEPT ![c] =
              IF r.outcome = "success" THEN FALSE ELSE (@ \/ r.notify)]

\* the fields _fetch_data leaves behind
FetchEffects(c, r) ==
    /\ error_notified' = [error_notified EXCEPT ![c] = r.error_notified]
    /\ last_successful_data' =
          [last_successful_data EXCEPT ![c] = r.last_successful_data]
    /\ persistent_notifications' =
          IF r.notify THEN persistent_notifications \cup {notification_id(c)}
          ELSE persistent_notifications
    /\ prev_outcome' = [prev_outcome EXCEPT ![c] = r.outcome]
    /\ notified_since_success' =
          [notified_since_success EXCEPT ![c] =
              IF r.outcome = "success" THEN FALSE ELSE (@ \/ r.notify)]

\* TickReturn with a session.get that has no timeout: a call that gets no
\* answer is awaited for ever
TickReturnNoTimeout(c, resp) ==
    /\ tick_call[c] > 0
    /\ LET r == fetch_data(c, resp, tick_call[c]) IN
        /\ IF resp.transport THEN FetchEffects(c, r)
           ELSE UNCHANGED <<error_notified, last_successful_data,
                            persistent_notifications, prev_outcome,
                            notified_since_success>>
        /\ data' = [data EXCEPT ![c] =
                      IF r.outcome = "success" THEN r.last_successful_data ELSE @]
        /\ ev' = IF resp.transport
                 THEN [Event("tick_return", c, "none", FALSE, r.notify, r.outcome,
                             tick_call[c])
                          EXCEPT !.renotified =
                             r.notify /\ notification_id(c) \in persistent_notifications,
                                 !.prev = prev_outcome[c],
                                 !.raises = r.raises]
                 ELSE Event("no_answer", c, "none", FALSE, FALSE, "none", tick_call[c])
        /\ last_tick' = [last_tick EXCEPT ![c] =
                            IF @.fetched /\ r.outcome = "success"
                            THEN [@ EXCEPT !.stored = tick_call[c]] ELSE @]
    /\ tick_call' = [tick_call EXCEPT ![c] = IF resp.transport THEN 0 ELSE -1]
    /\ UNCHANGED <<now, options, last_update_minute, force_call, calls,
                   ticked, tick_calls_now>>

\* TickReturn of a tick that records its minute only when the fetch succeeds
TickReturnForgetsMinute(c, resp) ==
    /\ tick_call[c] # 0
    /\ LET r == fetch_data(c, resp, tick_call[c]) IN
        /\ FetchEffects(c, r)
        /\ data' = [data EXCEPT ![c] =
                      IF r.outcome = "success" THEN r.last_successful_data ELSE @]
        /\ ev' = [Event("tick_return", c, "none", FALSE, r.notify, r.outcome,
                        tick_call[c])
                     EXCEPT !.renotified =
                        r.notify /\ notification_id(c) \in persistent_notifications,
                            !.prev = prev_outcome[c],
                            !.raises = r.raises]
        /\ last_tick' = [last_tick EXCEPT ![c] =
                            IF @.fetched /\ r.outcome = "success"
                            THEN [@ EXCEPT !.stored = tick_call[c]] ELSE @]
    /\ tick_call' = [tick_call EXCEPT ![c] = 0]
    /\ last_update_minute' =
          [last_update_minute EXCEPT ![c] =
              IF fetch_data(c, resp, tick_call[c]).outcome = "success" THEN @
              ELSE NoMinute]
    /\ UNCHANGED <<now, options, force_call, calls, ticked, tick_calls_now>>

\* the network call of a tick returns: the rest of _fetch_data, then the host
\* stores the returned snapshot in self.data (UpdateFailed leaves it alone)
TickReturn(c, resp) ==
    /\ tick_call[c] # 0
    /\ LET r == fetch_data(c, resp, tick_call[c]) IN
        /\ FetchEffects(c, r)
        /\ data' = [data EXCEPT ![c] =
                      IF r.outcome = "success" THEN r.last_successful_data ELSE @]
        /\ ev' = [Event("tick_return", c, "none", FALSE, r.notify, r.outcome,
                        tick_call[c])
                     EXCEPT !.renotified =
                        r.notify /\ notification_id(c) \in persistent_notifications,
                            !.prev = prev_outcome[c],
                            !.raises = r.raises]
        /\ last_tick' = [last_tick EXCEPT ![c] =
                            IF @.fetched /\ r.outcome = "success"
                            THEN [@ EXCEPT !.stored = tick_call[c]] ELSE @]
    /\ tick_call' = [tick_call EXCEPT ![c] = 0]
    /\ UNCHANGED <<now, options, last_update_minute, force_call, calls,
                   ticked, tick_calls_now>>

\* ForceStart asking the schedule policy before it fetches
ForceStartScheduled(c) ==
    /\ force_call[c] = 0
    /\ calls[c] < MaxCalls
    /\ last_update_minute' = [last_update_minute EXCEPT ![c] = NoMinute]
    /\ IF should_update_now(c) THEN
          /\ calls' = [calls EXCEPT ![c] = @ + 1]
          /\ force_call' = [force_call EXCEPT ![c] = calls[c] + 1]
          /\ ev' = Event("force", c, "fetch", TRUE, FALSE, "none", calls[c] + 1)
       ELSE
          /\ UNCHANGED <<calls, force_call>>
          /\ ev' = Event("force", c, "cached", FALSE, FALSE, "none", 0)
    /\ last_tick' = [last_tick EXCEPT ![c] = NoTick]
    /\ UNCHANGED <<now, options, last_successful_data, error_notified, data, tick_call,
                   persistent_notifications, prev_outcome, notified_since_success,
                   ticked, tick_calls_now>>

\* ForceStart without the reset of _last_update_minute
ForceStartKeepsMinute(c) ==
    /\ force_call[c] = 0
    /\ calls[c] < MaxCalls
    /\ last_update_minute' = last_update_minute
    /\ calls' = [calls EXCEPT ![c] = @ + 1]
    /\ force_call' = [force_call EXCEPT ![c] = calls[c] + 1]
    /\ ev' = Event("force", c, "fetch", TRUE, FALSE, "none", calls[c] + 1)
    /\ last_tick' = [last_tick EXCEPT ![c] = NoTick]
    /\ UNCHANGED <<now, options, last_successful_data, error_notified, data, tick_call,
                   persistent_notifications, prev_outcome, notified_since_success,
                   ticked, tick_calls_now>>

\* async_press -> async_force_refresh up to the network call
ForceStart(c) ==
    /\ force_call[c] = 0
    /\ calls[c] < MaxCalls
    /\ last_update_minute' = [last_update_minute EXCEPT ![c] = NoMinute]
    /\ calls' = [calls EXCEPT ![c] = @ + 1]
    /\ force_call' = [force_call EXCEPT ![c] = calls[c] + 1]
    /\ ev' = Event("force", c, "fetch", TRUE, FALSE, "none", calls[c] + 1)
    /\ last_tick' = [last_tick EXCEPT ![c] = NoTick]
    /\ UNCHANGED <<now, options, last_successful_data, error_notified, data, tick_call,
                   persistent_notifications, prev_outcome, notified_since_success,
                   ticked, tick_calls_now>>

\* the network call of a force refresh returns: the rest of _fetch_data, then
\* async_set_updated_data(self._last_successful_data) unless _fetch_data raised
ForceReturn(c, resp) ==
    /\ force_call[c] # 0
    /\ LET r == fetch_data(c, resp, force_call[c]) IN
        /\ FetchEffects(c, r)
        /\ data' = [data EXCEPT ![c] =
                      IF r.outcome = "success" THEN r.last_successful_data ELSE @]
        /\ ev' = [Event("force_return", c, "none", FALSE, r.notify, r.outcome,
                        force_call[c])
                     EXCEPT !.renotified =
                        r.notify /\ notification_id(c) \in persistent_notifications,
                            !.prev = prev_outcome[c],
                            !.raises = r.raises]
    /\ last_tick' = [last_tick EXCEPT ![c] = NoTick]
    /\ force_call' = [force_call EXCEPT ![c] = 0]
    /\ UNCHANGED <<now, options, last_update_minute, tick_call, calls,
                   ticked, tick_calls_now>>

\* a step of a coordinator leaves the host's registry and platforms alone
HostUnchanged == UNCHANGED <<hass_data, platforms, setup, flow, config_entries,
                   portfolio_name>>

Next ==
    \/ Advance /\ HostUnchanged
    \/ \E c \in Coordinators : TickStart(c) /\ HostUnchanged
    \/ \E c \in Coordinators, resp \in Responses : TickReturn(c, resp) /\ HostUnchanged
    \/ \E c \in Coordinators : ForceStart(c) /\ HostUnchanged
    \/ \E c \in Coordinators, resp \in Responses : ForceReturn(c, resp) /\ HostUnchanged

Spec == Init /\ [][Next]_vars

\* every network call is answered or times out (timeout=30 of session.get),
\* so the task awaiting it resumes
CallsEnd ==
    \A c \in OneEntry :
        /\ WF_vars(\E resp \in Responses : TickReturn(c, resp) /\ HostUnchanged)
        /\ WF_vars(\E resp \in Responses : ForceReturn(c, resp) /\ HostUnchanged)

\* the coordinator of an entry with the default options
InitLive == Init /\ options \in [OneEntry -> {DefaultOptions}]

SpecLive == InitLive /\ [][Next]_vars /\ CallsEnd

-----------------------------------------------------------------------------
(* Two configured entries: two coordinators on one event loop, their ticks,
   force refreshes and network calls interleaving over one day *)

\* the bound of the network calls the two coordinators issue together
MaxCallsTwo == 2

RECURSIVE SumOver(_, _)
SumOver(f, S) ==
    IF S = {} THEN 0
    ELSE LET c == CHOOSE x \in S : TRUE IN f[c] + SumOver(f, S \ {c})

InitTwo ==
    /\ now \in {t \in Instants : t.day = 0}
    /\ options \in [TwoEntries -> {DefaultOptions}]
    /\ Constructed(DOMAIN options)
    /\ portfolio_name = DefaultNames(DOMAIN options)
    /\ ev = Event("init", "", "none", FALSE, FALSE, "none", 0)

NextTwo ==
    \/ Advance /\ now'.day = 0 /\ HostUnchanged
    \/ \E c \in Coordinators :
          TickStart(c) /\ SumOver(calls', Coordinators) <= MaxCallsTwo /\ HostUnchanged
    \/ \E c \in Coordinators, resp \in Responses : TickReturn(c, resp) /\ HostUnchanged
    \/ \E c \in Coordinators :
          ForceStart(c) /\ SumOver(calls', Coordinators) <= MaxCallsTwo /\ HostUnchanged
    \/ \E c \in Coordinators, resp \in Responses : ForceReturn(c, resp) /\ HostUnchanged

SpecTwo == InitTwo /\ [][NextTwo]_vars

\* the names the upstream may give to portfolios; the wizard stores the name
\* of the selected portfolio as it is
PortfolioNames ==
    {<<"M", "a", "i", "n">>,
     <<"M", "y", " ", "A">>,
     <<"m", "y", "_", "a", "'">>}

\* two entries for two portfolios (their unique ids differ) of any names
InitNames ==
    /\ now \in {t \in Instants : t.day = 0}
    /\ options \in [TwoEntries -> {DefaultOptions}]
    /\ Constructed(DOMAIN options)
    /\ portfolio_name \in [TwoEntries -> PortfolioNames]
    /\ ev = Event("init", "", "none", FALSE, FALSE, "none", 0)

SpecNames == InitNames /\ [][NextTwo]_vars

-----------------------------------------------------------------------------
(* The life of a config entry: async_setup_entry constructs the coordinator,
   awaits its first refresh, registers it and sets up the platforms; the host
   then ticks it, and the button of its platform forces a refresh *)

CoordinatorUnchanged ==
    UNCHANGED <<now, options, last_successful_data, last_update_minute,
                error_notified, data, tick_call, force_call, calls,
                persistent_notifications, prev_outcome, notified_since_success,
                ticked, tick_calls_now, last_tick>>

\* SetupFirstRefresh of an async_setup_entry that stores the coordinator in
\* hass.data[DOMAIN] before it awaits the first refresh
SetupRegistersBeforeRefresh(c) ==
    /\ setup[c] = "constructed"
    /\ TickStart(c)
    /\ setup' = [setup EXCEPT ![c] = "first_refresh"]
    /\ hass_data' = hass_data \cup {c}
    /\ UNCHANGED <<platforms, flow, config_entries,
                   portfolio_name>>

\* async_config_entry_first_refresh: the first _async_update_data, up to the
\* network call
SetupFirstRefresh(c) ==
    /\ setup[c] = "constructed"
    /\ TickStart(c)
    /\ setup' = [setup EXCEPT ![c] = "first_refresh"]
    /\ UNCHANGED <<hass_data, platforms, flow, config_entries,
                   portfolio_name>>

\* SetupFirstReturn going on to register the coordinator when the first
\* refresh has failed
SetupFirstReturnIgnoresFailure(c, resp) ==
    /\ setup[c] = "first_refresh"
    /\ TickReturn(c, resp)
    /\ hass_data' = hass_data \cup {c}
    /\ setup' = [setup EXCEPT ![c] = "registered"]
    /\ UNCHANGED <<platforms, flow, config_entries,
                   portfolio_name>>

\* the first refresh ends: when it failed, async_config_entry_first_refresh
\* raises ConfigEntryNotReady and async_setup_entry ends there; otherwise the
\* coordinator is stored in hass.data[DOMAIN]
SetupFirstReturn(c, resp) ==
    /\ setup[c] = "first_refresh"
    /\ TickReturn(c, resp)
    /\ IF ev'.raises = "none"
       THEN /\ hass_data' = hass_data \cup {c}
            /\ setup' = [setup EXCEPT ![c] = "registered"]
       ELSE /\ hass_data' = hass_data
            /\ setup' = [setup EXCEPT ![c] = "not_ready"]
    /\ UNCHANGED <<platforms, flow, config_entries,
                   portfolio_name>>

\* async_forward_entry_setups: the sensors and the button are created
ForwardEntrySetups(c) ==
    /\ setup[c] = "registered"
    /\ platforms' = platforms \cup {c}
    /\ setup' = [setup EXCEPT ![c] = "loaded"]
    /\ ev' = Event("forward_entry_setups", c, "none", FALSE, FALSE, "none", 0)
    /\ CoordinatorUnchanged
    /\ UNCHANGED <<hass_data, flow, config_entries,
                   portfolio_name>>

\* the host calls async_setup_entry again after ConfigEntryNotReady: a new
\* coordinator replaces the one that failed
SetupRetry(c) ==
    /\ setup[c] = "not_ready"
    /\ last_successful_data' = [last_successful_data EXCEPT ![c] = None]
    /\ last_update_minute' = [last_update_minute EXCEPT ![c] = NoMinute]
    /\ error_notified' = [error_notified EXCEPT ![c] = FALSE]
    /\ data' = [data EXCEPT ![c] = None]
    /\ prev_outcome' = [prev_outcome EXCEPT ![c] = "none"]
    /\ notified_since_success' = [notified_since_success EXCEPT ![c] = FALSE]
    /\ last_tick' = [last_tick EXCEPT ![c] = NoTick]
    /\ setup' = [setup EXCEPT ![c] = "constructed"]
    /\ ev' = Event("setup_entry", c, "none", FALSE, FALSE, "none", 0)
    /\ UNCHANGED <<now, options, tick_call, force_call, calls,
                   persistent_notifications, ticked, tick_calls_now,
                   hass_data, platforms, flow, config_entries,
                   portfolio_name>>

\* the host ticks the coordinators of loaded entries; the button exists once
\* the platforms are set up
NextSetup ==
    \/ Advance /\ HostUnchanged
    \/ \E c \in Coordinators : SetupFirstRefresh(c)
    \/ \E c \in Coordinators, resp \in Responses : SetupFirstReturn(c, resp)
    \/ \E c \in Coordinators : ForwardEntrySetups(c)
    \/ \E c \in Coordinators : SetupRetry(c)
    \/ \E c \in Coordinators :
          setup[c] = "loaded" /\ TickStart(c) /\ HostUnchanged
    \/ \E c \in Coordinators, resp \in Responses :
          setup[c] = "loaded" /\ TickReturn(c, resp) /\ HostUnchanged
    \/ \E c \in Coordinators :
          c \in platforms /\ ForceStart(c) /\ HostUnchanged
    \/ \E c \in Coordinators, resp \in Responses :
          c \in platforms /\ ForceReturn(c, resp) /\ HostUnchanged

SpecSetup == Init /\ [][NextSetup]_vars

-----------------------------------------------------------------------------
(* The schedule policy on its own: should_update_now at every instant of a
   week, for a coordinator constructed with any of a range of options *)

\* every (weekday, hour, minute) datetime.now() can show
WeekInstants == {[day |-> d, hour |-> h, minute |-> m] :
                    d \in 0..6, h \in 0..23, m \in 0..59}

ScheduleOptions(interval, start, end, night, morning) ==
    [update_weekday_interval |-> interval,
     update_weekday_start    |-> start,
     update_weekday_end      |-> end,
     update_night_time       |-> night,
     update_morning_time     |-> morning]

\* options the options flow accepts: interval in 1..60, hours in 0..23, start
\* and end in any order
ScheduleInputs ==
    {DefaultOptions,
     SameTimeOptions,
     ScheduleOptions(15, 21, 9, DEFAULT_UPDATE_NIGHT_TIME, DEFAULT_UPDATE_MORNING_TIME),
     ScheduleOptions(15, 10, 10, DEFAULT_UPDATE_NIGHT_TIME, DEFAULT_UPDATE_MORNING_TIME),
     ScheduleOptions(1, 0, 23, <<"2", "3", ":", "5", "9">>, <<"0", "0", ":", "0", "0">>),
     ScheduleOptions(60, 8, 18, <<"1", "2", ":", "3", "0">>, <<"0", "9", ":", "0", "7">>),
     ScheduleOptions(7, 23, 0, <<"2", "3", ":", "0", "7">>, <<"0", "0", ":", "1", "4">>)}

InitSchedule ==
    /\ now \in WeekInstants
    /\ options \in [OneEntry -> ScheduleInputs]
    /\ Constructed(DOMAIN options)
    /\ portfolio_name = DefaultNames(DOMAIN options)
    /\ ev = [op |-> "constructed"]

\* one call of should_update_now; its first component is the decision, the
\* second the seconds until the next check
EvaluateSchedule(c) ==
    /\ ev.op = "constructed"
    /\ ev' = [op |-> "should_update_now", c |-> c,
              result |-> <<should_update_now(c), 60>>]
    /\ UNCHANGED <<now, options, last_successful_data, last_update_minute,
                   error_notified, data, tick_call, force_call, calls,
                   persistent_notifications, prev_outcome, notified_since_success,
                   ticked, tick_calls_now, last_tick, hass_data, platforms, setup,
                   flow, config_entries,
                   portfolio_name>>

NextSchedule == \E c \in Coordinators : EvaluateSchedule(c)

SpecSchedule == InitSchedule /\ [][NextSchedule]_vars

-----------------------------------------------------------------------------
(* The API client on its own: each operation called with any of a range of
   answers of the upstream.  ev holds the invocation in progress: the
   operation, the requests it has issued and, once it has ended, the answer it
   got and the value it returned or the class it raised *)

SummaryResponses ==
    {Response(tr, st, sys, code, n, sd) :
        tr \in BOOLEAN, st \in {200, 404, 500}, sys \in {"ok", "failed", ""},
        code \in {"1001", "203", "500", "unknown"}, n \in {0, 1, 2},
        sd \in {FullSummary, PartialSummary, {}}}

LoginResponses ==
    {LoginResponse(tr, st, sys, d) :
        tr \in BOOLEAN, st \in {200, 401}, sys \in {"ok", "error"},
        d \in {{},
               {<<"token", "t1">>},
               {<<"errors", "e1">>},
               {<<"errors", "e1">>, <<"token", "t1">>},
               {<<"token", "t1">>, <<"user_ID", "u1">>, <<"user_email", "a@b">>}}}

PositionPortfolio == {<<"portfolio_id", "p1">>, <<"portfolioType", "position">>}
WatchlistPortfolio == {<<"portfolio_id", "p2">>, <<"portfolioType", "watchlist">>}
UntypedPortfolio == {<<"portfolio_id", "p3">>}

PortfoliosResponses ==
    {PortfoliosResponse(tr, st, sys, code, n, ps) :
        tr \in BOOLEAN, st \in {200, 500}, sys \in {"ok", "failed"},
        code \in {"1001", "500"}, n \in {0, 1},
        ps \in {<<>>, <<PositionPortfolio>>, <<WatchlistPortfolio>>,
                <<WatchlistPortfolio, PositionPortfolio, UntypedPortfolio>>}}

InitApi ==
    /\ now \in {t \in Instants : t.day = 0}
    /\ options \in [OneEntry -> Schedules]
    /\ Constructed(DOMAIN options)
    /\ portfolio_name = DefaultNames(DOMAIN options)
    /\ ev = [op |-> "idle"]

ApiIdle == ev.op \in {"idle", "api_return"}

ApiUnchanged ==
    UNCHANGED <<now, options, last_successful_data, last_update_minute,
                error_notified, data, tick_call, force_call, calls,
                persistent_notifications, prev_outcome, notified_since_success,
                ticked, tick_calls_now, last_tick, hass_data, platforms, setup,
                   flow, config_entries,
                   portfolio_name>>

\* an operation runs up to its one session.post / session.get and awaits the
\* answer
ApiCall(api, position_only) ==
    /\ ApiIdle
    /\ ev' = [op |-> "api_request", api |-> api, position_only |-> position_only,
              requests |-> 1]
    /\ ApiUnchanged

ApiReturned(resp, result) ==
    [op |-> "api_return", api |-> ev.api, position_only |-> ev.position_only,
     requests |-> ev.requests, response |-> resp, result |-> result]

LoginReturn(resp) ==
    /\ ev.op = "api_request" /\ ev.api = "login"
    /\ ev' = ApiReturned(resp, login(resp))
    /\ ApiUnchanged

GetPortfoliosReturn(resp) ==
    /\ ev.op = "api_request" /\ ev.api = "get_portfolios"
    /\ ev' = ApiReturned(resp, get_portfolios(resp, ev.position_only))
    /\ ApiUnchanged

\* the bound of the requests one invocation of an operation may issue
MaxRequests == 2

\* get_portfolio_summary asking the upstream again after a timeout
GetPortfolioSummaryRetry(resp) ==
    /\ ev.op = "api_request" /\ ev.api = "get_portfolio_summary"
    /\ ev' = IF ~resp.transport /\ ev.requests < MaxRequests
             THEN [ev EXCEPT !.requests = @ + 1]
             ELSE ApiReturned(resp, get_portfolio_summary(resp))
    /\ ApiUnchanged

GetPortfolioSummaryReturn(resp) ==
    /\ ev.op = "api_request" /\ ev.api = "get_portfolio_summary"
    /\ ev' = ApiReturned(resp, get_portfolio_summary(resp))
    /\ ApiUnchanged

NextApi ==
    \/ ApiCall("login", TRUE)
    \/ \E position_only \in BOOLEAN : ApiCall("get_portfolios", position_only)
    \/ ApiCall("get_portfolio_summary", TRUE)
    \/ \E resp \in LoginResponses : LoginReturn(resp)
    \/ \E resp \in PortfoliosResponses : GetPortfoliosReturn(resp)
    \/ \E resp \in SummaryResponses : GetPortfolioSummaryReturn(resp)

SpecApi == InitApi /\ [][NextApi]_vars

\* the client and the coordinator together: the config flow calls login and
\* get_portfolios (and this model get_portfolio_summary as well) before the
\* entry exists; from its first tick on the coordinator is the only caller
NextRequests ==
    \/ NextApi
    \/ Next

SpecRequests == InitApi /\ [][NextRequests]_vars

-----------------------------------------------------------------------------
(* The onboarding flow: ConfigFlow.async_step_user logs in and goes on to
   async_step_select_portfolio, which fetches the portfolio list, shows the
   selection form and, called with the selection, creates the config entry.
   A handler runs up to the request it awaits; the host calls the step of the
   form it has shown last, with an input that form's schema accepts *)

\* str() of an int that is not negative
RECURSIVE str(_)
str(n) ==
    LET digit == CHOOSE ch \in Digits : DigitValue(ch) = n % 10
    IN  IF n < 10 THEN <<digit>> ELSE Append(str(n \div 10), digit)

\* hass.config.config_dir, the seed of the device id
config_dir == "/config"

\* the deterministic device id: the first bytes of the SHA-256 of the seed
generate_x_udid(seed) == [sha256 |-> seed]

Emails == {"a@b", "c@d"}

FlowLoginResponses ==
    {LoginResponse(tr, st, "ok", d) :
        tr \in BOOLEAN, st \in {200, 401},
        d \in {{<<"token", "t1">>}, {<<"token", "t2">>}, {<<"errors", "e1">>}}}

Portfolio(id, name, type) ==
    {<<"portfolio_id", id>>, <<"portfolio_name", name>>, <<"portfolioType", type>>}

PortfolioLists ==
    {<<Portfolio(7, "Main", "position")>>,
     <<Portfolio(7, "Main", "position"), Portfolio(12, "Second", "position")>>,
     <<Portfolio(7, "Renamed", "position"), Portfolio(3, "Watch", "watchlist")>>,
     <<Portfolio(12, "", "position"), Portfolio(7, "Main", "position")>>,
     <<{<<"portfolio_id", 12>>, <<"portfolioType", "position">>}>>,
     <<Portfolio(3, "Watch", "watchlist")>>}

FlowPortfoliosResponses ==
    {PortfoliosResponse(FALSE, 200, "ok", "500", 1, <<>>),
     PortfoliosResponse(TRUE, 500, "ok", "500", 1, <<>>),
     PortfoliosResponse(TRUE, 200, "failed", "1001", 1, <<>>),
     PortfoliosResponse(TRUE, 200, "failed", "500", 1, <<>>),
     PortfoliosResponse(TRUE, 200, "ok", "500", 0, <<>>)}
    \cup {PortfoliosResponse(TRUE, 200, "ok", "500", 1, ps) : ps \in PortfolioLists}

\* ConfigFlow.__init__, then async_step_user(None) has shown the login form.
\* awaiting: the request a suspended handler awaits; options: the keys of the
\* selection form shown last; login, fetched: history, the token, device id
\* and email of the latest successful login of this flow and the latest list
\* get_portfolios has returned to it
NewFlow ==
    [step |-> "user", x_token |-> "None", x_udid |-> None, email |-> "None",
     portfolios |-> <<>>, errors |-> "none", options |-> {}, awaiting |-> None,
     login |-> None, fetched |-> None]

FlowEvent(op, result, reason) == [op |-> op, result |-> result, reason |-> reason]

FlowOthersUnchanged ==
    /\ UNCHANGED <<now, options, last_successful_data, last_update_minute,
                   error_notified, data, tick_call, force_call, calls,
                   persistent_notifications, prev_outcome, notified_since_success,
                   ticked, tick_calls_now, last_tick, hass_data, platforms, setup,
                   portfolio_name>>

FlowIdle == flow.step # "none" /\ flow.awaiting = None

\* the user starts the flow: a new ConfigFlow shows the login form
FlowInit ==
    /\ flow.awaiting = None
    /\ flow' = NewFlow
    /\ ev' = FlowEvent("flow_init", "form", "user")
    /\ UNCHANGED config_entries
    /\ FlowOthersUnchanged

\* async_step_user(user_input) up to the request of api.login
StepUser(email) ==
    /\ FlowIdle /\ flow.step = "user"
    /\ flow' = [flow EXCEPT !.awaiting =
                   [api |-> "login", email |-> email,
                    x_udid |-> generate_x_udid(<<config_dir, email>>)]]
    /\ ev' = FlowEvent("step_user", "request", "login")
    /\ UNCHANGED config_entries
    /\ FlowOthersUnchanged

\* the login form with an error
UserForm(f, error) == [f EXCEPT !.step = "user", !.errors = error, !.awaiting = None]

\* the except clauses of async_step_user
StepUserExcept(cls) ==
    IF IsInstance(cls, "AuthenticationError") THEN "invalid_auth" ELSE "cannot_connect"

\* api.login returns to async_step_user: an exception shows the login form
\* again; a result is stored and async_step_select_portfolio() is called,
\* which runs up to the request of api.get_portfolios
StepUserReturn(resp) ==
    /\ flow.awaiting # None /\ flow.awaiting.api = "login"
    /\ LET result == login(resp) IN
          IF result.raised
          THEN /\ flow' = UserForm(flow, StepUserExcept(result.error))
               /\ ev' = FlowEvent("login_return", "form", "user")
          ELSE /\ flow' = [flow EXCEPT
                              !.x_token = result.value.token,
                              !.x_udid = flow.awaiting.x_udid,
                              !.email = flow.awaiting.email,
                              !.login = [token |-> result.value.token,
                                         x_udid |-> flow.awaiting.x_udid,
                                         email |-> flow.awaiting.email],
                              !.awaiting = [api |-> "get_portfolios", via_user |-> TRUE,
                                            errors |-> "none"]]
               /\ ev' = FlowEvent("login_return", "request", "get_portfolios")
    /\ UNCHANGED config_entries
    /\ FlowOthersUnchanged

\* the loop of async_step_select_portfolio that looks the selection up in
\* self._portfolios; p[key] of an entry without the key raises KeyError
RECURSIVE find_portfolio_name(_, _)
find_portfolio_name(portfolios, portfolio_id) ==
    IF portfolios = <<>> THEN [raised |-> FALSE, found |-> FALSE, name |-> ""]
    ELSE LET p == Head(portfolios) IN
         IF ~HasKey(p, "portfolio_id") THEN Raise("KeyError")
         ELSE IF Get(p, "portfolio_id", 0) = portfolio_id THEN
              IF ~HasKey(p, "portfolio_name") THEN Raise("KeyError")
              ELSE [raised |-> FALSE, found |-> TRUE,
                    name |-> Get(p, "portfolio_name", "")]
         ELSE find_portfolio_name(Tail(portfolios), portfolio_id)

\* async_create_entry(title=portfolio_name, data=...) with the unique id set
ConfigEntry(f, portfolio_id, name) ==
    [unique_id |-> str(portfolio_id), title |-> name,
     data |-> [email |-> f.email, x_token |-> f.x_token, x_udid |-> f.x_udid,
               portfolio_id |-> portfolio_id, portfolio_name |-> name]]

\* StepSelectPortfolio without _abort_if_unique_id_configured
StepSelectPortfolioNoAbort(portfolio_id) ==
    /\ FlowIdle /\ flow.step = "select_portfolio"
    /\ portfolio_id \in flow.options
    /\ LET found == find_portfolio_name(flow.portfolios, portfolio_id) IN
          IF found.raised
          THEN /\ flow' = flow
               /\ config_entries' = config_entries
               /\ ev' = FlowEvent("step_select_portfolio", "exception", found.error)
          ELSE IF ~found.found \/ found.name = ""
          THEN /\ flow' = [flow EXCEPT !.awaiting =
                              [api |-> "get_portfolios", via_user |-> FALSE,
                               errors |-> "invalid_portfolio"]]
               /\ config_entries' = config_entries
               /\ ev' = FlowEvent("step_select_portfolio", "request", "get_portfolios")
          ELSE /\ flow' = [flow EXCEPT !.step = "done"]
               /\ config_entries' =
                     config_entries \cup {ConfigEntry(flow, portfolio_id, found.name)}
               /\ ev' = FlowEvent("step_select_portfolio", "create_entry", found.name)
    /\ FlowOthersUnchanged

\* async_step_select_portfolio(user_input): the selection is looked up; a
\* selection without a name goes on to fetch the list again; a unique id that
\* an entry has aborts the flow; otherwise the entry is created
StepSelectPortfolio(portfolio_id) ==
    /\ FlowIdle /\ flow.step = "select_portfolio"
    /\ portfolio_id \in flow.options
    /\ LET found == find_portfolio_name(flow.portfolios, portfolio_id) IN
          IF found.raised
          THEN /\ flow' = flow
               /\ config_entries' = config_entries
               /\ ev' = FlowEvent("step_select_portfolio", "exception", found.error)
          ELSE IF ~found.found \/ found.name = ""
          THEN /\ flow' = [flow EXCEPT !.awaiting =
                              [api |-> "get_portfolios", via_user |-> FALSE,
                               errors |-> "invalid_portfolio"]]
               /\ config_entries' = config_entries
               /\ ev' = FlowEvent("step_select_portfolio", "request", "get_portfolios")
          ELSE IF \E entry \in config_entries : entry.unique_id = str(portfolio_id)
          THEN /\ flow' = [flow EXCEPT !.step = "done"]
               /\ config_entries' = config_entries
               /\ ev' = FlowEvent("step_select_portfolio", "abort", "already_configured")
          ELSE /\ flow' = [flow EXCEPT !.step = "done"]
               /\ config_entries' =
                     config_entries \cup {ConfigEntry(flow, portfolio_id, found.name)}
               /\ ev' = FlowEvent("step_select_portfolio", "create_entry", found.name)
    /\ FlowOthersUnchanged

\* an exception of class cls leaves the try of async_step_select_portfolio:
\* a PortfolioError shows the login form; any other class reaches the except
\* clauses of async_step_user when that step made the call, and otherwise the
\* host, which keeps the flow at the form it has shown
SelectPortfolioExcept(f, cls) ==
    IF IsInstance(cls, "PortfolioError") THEN UserForm(f, "cannot_connect")
    ELSE IF f.awaiting.via_user THEN UserForm(f, StepUserExcept(cls))
    ELSE [f EXCEPT !.awaiting = None]

\* api.get_portfolios returns to async_step_select_portfolio: the list is
\* stored; an empty list aborts the flow; otherwise the selection form is
\* built from the ids and names of the list and shown
SelectPortfolioReturn(resp) ==
    /\ flow.awaiting # None /\ flow.awaiting.api = "get_portfolios"
    /\ LET result == get_portfolios(resp, TRUE)
           stored == [flow EXCEPT !.portfolios = result.value,
                                  !.fetched = [list |-> result.value]]
       IN  IF result.raised
           THEN /\ flow' = SelectPortfolioExcept(flow, result.error)
                /\ ev' = FlowEvent("get_portfolios_return",
                                   IF flow'.step = flow.step /\ ~flow.awaiting.via_user
                                   THEN "exception" ELSE "form", result.error)
           ELSE IF result.value = <<>>
           THEN /\ flow' = [stored EXCEPT !.step = "done", !.awaiting = None]
                /\ ev' = FlowEvent("get_portfolios_return", "abort", "no_portfolios")
           ELSE IF \E i \in 1..Len(result.value) :
                      ~HasKey(result.value[i], "portfolio_id")
                      \/ ~HasKey(result.value[i], "portfolio_name")
           THEN /\ flow' = SelectPortfolioExcept(stored, "KeyError")
                /\ ev' = FlowEvent("get_portfolios_return",
                                   IF flow.awaiting.via_user THEN "form" ELSE "exception",
                                   "KeyError")
           ELSE /\ flow' = [stored EXCEPT
                               !.step = "select_portfolio",
                               !.errors = flow.awaiting.errors,
                               !.options = {Get(result.value[i], "portfolio_id", 0) :
                                               i \in 1..Len(result.value)},
                               !.awaiting = None]
                /\ ev' = FlowEvent("get_portfolios_return", "form", "select_portfolio")
    /\ UNCHANGED config_entries
    /\ FlowOthersUnchanged

InitFlow ==
    /\ now \in {t \in Instants : t.day = 0 /\ t.hour = 4}
    /\ options \in [OneEntry -> {DefaultOptions}]
    /\ Constructed(DOMAIN options)
    /\ portfolio_name = DefaultNames(DOMAIN options)
    /\ ev = FlowEvent("idle", "none", "none")

NextFlow ==
    \/ FlowInit
    \/ \E email \in Emails : StepUser(email)
    \/ \E resp \in FlowLoginResponses : StepUserReturn(resp)
    \/ \E portfolio_id \in {3, 7, 12} : StepSelectPortfolio(portfolio_id)
    \/ \E resp \in FlowPortfoliosResponses : SelectPortfolioReturn(resp)

SpecFlow == InitFlow /\ [][NextFlow]_vars

-----------------------------------------------------------------------------
(* Migration of a config entry: the host calls async_migrate_entry with an
   entry of an older version; here it is called twice on every entry of a
   range.  An entry is its version, its title and its data, a JSON object;
   titles and names are sequences of characters *)

DEFAULT_PORTFOLIO_ID == 0

\* f"Portfolio {portfolio_id}"
PortfolioTitle(portfolio_id) ==
    <<"P", "o", "r", "t", "f", "o", "l", "i", "o", " ">> \o str(portfolio_id)

\* async_migrate_entry writing portfolio_name whether the key is there or not
async_migrate_entry_overwrites_name(config_entry) ==
    IF config_entry.version = 1 THEN
        LET portfolio_id == Get(config_entry.data, "portfolio_id", DEFAULT_PORTFOLIO_ID)
            name == IF config_entry.title # <<>> THEN config_entry.title
                    ELSE PortfolioTitle(portfolio_id)
            new_data == {pair \in config_entry.data : pair[1] # "portfolio_name"}
                        \cup {<<"portfolio_name", name>>}
        IN  [entry |-> [config_entry EXCEPT !.data = new_data, !.version = 2],
             result |-> TRUE]
    ELSE [entry |-> config_entry, result |-> TRUE]

\* async_migrate_entry: the entry as async_update_entry leaves it, and the
\* value returned
async_migrate_entry(config_entry) ==
    IF config_entry.version = 1 THEN
        LET portfolio_id == Get(config_entry.data, "portfolio_id", DEFAULT_PORTFOLIO_ID)
            name == IF config_entry.title # <<>> THEN config_entry.title
                    ELSE PortfolioTitle(portfolio_id)
            new_data == IF ~HasKey(config_entry.data, "portfolio_name")
                        THEN config_entry.data \cup {<<"portfolio_name", name>>}
                        ELSE config_entry.data
        IN  [entry |-> [config_entry EXCEPT !.data = new_data, !.version = 2],
             result |-> TRUE]
    ELSE [entry |-> config_entry, result |-> TRUE]

\* the entries of versions 1 and 2: with and without a title, a portfolio id
\* and a name (also an empty one), and with keys the migration does not read
StoredEntries ==
    {[version |-> v, title |-> t, data |-> ids \cup names \cup others] :
        v \in {1, 2},
        t \in {<<>>, <<"M", "y">>},
        ids \in {{}, {<<"portfolio_id", 7>>}, {<<"portfolio_id", 12>>}},
        names \in {{}, {<<"portfolio_name", <<>>>>}, {<<"portfolio_name", <<"M", "a", "i", "n">>>>}},
        others \in {{}, {<<"x_token", "t1">>},
                    {<<"email", "a@b">>, <<"x_token", "t1">>, <<"x_udid", "u1">>}}}

InitMigrate ==
    /\ now \in {t \in Instants : t.day = 0 /\ t.hour = 4}
    /\ options \in [OneEntry -> {DefaultOptions}]
    /\ Constructed(DOMAIN options)
    /\ portfolio_name = DefaultNames(DOMAIN options)
    /\ ev \in {[op |-> "stored", runs |-> 0, stored |-> e, entry |-> e,
                before |-> e, result |-> TRUE] : e \in StoredEntries}

\* a call of async_migrate_entry on the entry as it is now
MigrateEntry ==
    /\ ev.runs < 2
    /\ LET migrated == async_migrate_entry(ev.entry) IN
          ev' = [op |-> "async_migrate_entry", runs |-> ev.runs + 1,
                 stored |-> ev.stored, entry |-> migrated.entry,
                 before |-> ev.entry, result |-> migrated.result]
    /\ CoordinatorUnchanged
    /\ HostUnchanged

NextMigrate == MigrateEntry

SpecMigrate == InitMigrate /\ [][NextMigrate]_vars

-----------------------------------------------------------------------------
(* parse_european_number on its own: called with every string up to a length
   over an alphabet, and with longer strings of the kinds the upstream sends *)

\* the longest string of the alphabet the function is called with
MaxLen == 4

NumberAlphabet == {"0", "1", ".", ",", "+", "-", "%", Euro, " ", "e"}

LongNumbers ==
    {<<"2", "4", "0", ".", "9", "3", "7", ",", "9", "8">>,
     <<"4", "1", ",", "7", "1", "%">>,
     <<"+", "7", "0", ".", "8", "6", "4", ",", "2", "7">>,
     <<"-", "1", ".", "6", "1", "5", ",", "4", "7">>,
     <<"g", "a", "r", "b", "a", "g", "e">>,
     <<"n", "a", "n">>,
     <<"-", "n", "a", "n">>,
     <<"1", ".", "2", "3", "4", ",", "5", "6", " ", Euro>>,
     <<Euro, " ", "1", "2", ",", "5">>,
     <<"-", " ", "3", ",", "5">>,
     <<"1", "e", "3">>,
     <<"1", ",", "5", "e", "-", "2">>,
     <<"1", "2", ".", "3", "4", ".", "5", "6">>,
     <<"1", ",", "2", ",", "3">>}

NumberInputs == UNION {[1..n -> NumberAlphabet] : n \in 0..MaxLen} \cup LongNumbers

InitParse ==
    /\ now \in {t \in Instants : t.day = 0 /\ t.hour = 4}
    /\ options \in [OneEntry -> {DefaultOptions}]
    /\ Constructed(DOMAIN options)
    /\ portfolio_name = DefaultNames(DOMAIN options)
    /\ ev \in {[op |-> "call", value |-> v] : v \in NumberInputs}

ParseNumber ==
    /\ ev.op = "call"
    /\ ev' = [op |-> "parse_european_number", value |-> ev.value,
              result |-> parse_european_number(ev.value)]
    /\ CoordinatorUnchanged
    /\ HostUnchanged

NextParse == ParseNumber

SpecParse == InitParse /\ [][NextParse]_vars

-----------------------------------------------------------------------------
(* Properties *)

IsTick(e, c) == e.op = "tick" /\ e.c = c
IsReturn(e, c) == e.op \in {"tick_return", "force_return"} /\ e.c = c
Failure == {"TokenExpiredError", "PortfolioNotFoundError", "PortfolioError", "Exception"}
InFlight(c) == (IF tick_call[c] # 0 THEN 1 ELSE 0) + (IF force_call[c] # 0 THEN 1 ELSE 0)
AtScheduledTime(c, time_str) ==
    <<now.hour, now.minute>> = parse_time(time_str)

\* C1: a tick whose minute-of-day equals _last_update_minute issues no network
\* call and, when a snapshot is cached, returns that very snapshot; so of two
\* ticks in one minute-of-day (no force refresh in between) the second issues
\* no call when the first fetched, and returns the snapshot the first stored.
C1_SameMinuteDedup ==
    [][\A c \in Coordinators :
        /\ (IsTick(ev', c) /\ current_minute = last_update_minute[c]) =>
              /\ ~ev'.net
              /\ calls'[c] = calls[c]
              /\ tick_call'[c] = 0
              /\ last_successful_data[c] # None =>
                    /\ ev'.decision = "cached"
                    /\ data'[c] = last_successful_data[c]
                    /\ last_successful_data'[c] = last_successful_data[c]
        /\ (IsTick(ev', c) /\ last_tick[c].minute = current_minute
                           /\ last_tick[c].fetched) =>
              /\ ~ev'.net
              /\ calls'[c] = calls[c]
              /\ last_tick[c].stored # 0 =>
                    data'[c] = parsed_data(c, last_tick[c].stored)
      ]_vars

\* a tick returned the cache in a minute for which the schedule says "update",
\* because the one call of that minute had already been made and had succeeded
C1_Witness ==
    \E c \in Coordinators :
        /\ IsTick(ev, c) /\ ev.decision = "cached" /\ ~ev.net
        /\ should_update_now(c)
        /\ last_update_minute[c] = current_minute
        /\ calls[c] = 1
        /\ data[c] = parsed_data(c, 1)

\* C2: at most one network call of a coordinator is in flight at any time.
C2_AtMostOneInFlight ==
    \A c \in Coordinators : InFlight(c) <= 1

\* C3: a TokenExpiredError failure emits a notification only if none was emitted
\* since the last successful fetch (or construction); a second consecutive
\* TokenExpiredError failure emits none; the first one after a successful fetch
\* (or after construction) emits one.
C3_NotificationDebounce ==
    [][\A c \in Coordinators : IsReturn(ev', c) =>
        /\ ev'.notified =>
              /\ ev'.outcome = "TokenExpiredError"
              /\ ~notified_since_success[c]
        /\ (ev'.outcome = "TokenExpiredError" /\ prev_outcome[c] = "TokenExpiredError") =>
              ~ev'.notified
        /\ (ev'.outcome = "TokenExpiredError" /\ prev_outcome[c] \in {"success", "none"}) =>
              /\ ev'.notified
              /\ notification_id(c) \in persistent_notifications'
      ]_vars

\* a notification is emitted again after a successful fetch had ended the
\* suppression of an earlier one
C3_Witness ==
    \E c \in Coordinators :
        /\ IsReturn(ev, c) /\ ev.outcome = "TokenExpiredError"
        /\ ev.notified /\ ev.renotified
        /\ ev.prev = "success"
        /\ error_notified[c]

\* C4 as claimed: every TokenExpiredError failure whose preceding fetch outcome
\* was not a TokenExpiredError failure emits a notification.
C4_OncePerStreak ==
    [][\A c \in Coordinators :
        (IsReturn(ev', c) /\ ev'.outcome = "TokenExpiredError"
                          /\ prev_outcome[c] # "TokenExpiredError") => ev'.notified
      ]_vars

\* C4 amended: a TokenExpiredError failure emits exactly one notification when
\* _error_notified is clear, which is when no TokenExpiredError failure has
\* happened since the last successful fetch (or construction), and none
\* otherwise; a failure of another class emits none and leaves the flag as it
\* is, so it does not end the suppression.
C4_OncePerFailureRun ==
    [][\A c \in Coordinators : IsReturn(ev', c) =>
        /\ ev'.outcome = "TokenExpiredError" =>
              /\ ev'.notified <=> ~error_notified[c]
              /\ error_notified[c] <=> notified_since_success[c]
              /\ error_notified'[c]
        /\ ev'.outcome \in Failure \ {"TokenExpiredError"} =>
              /\ ~ev'.notified
              /\ error_notified'[c] = error_notified[c]
              /\ persistent_notifications' = persistent_notifications
      ]_vars

\* a TokenExpiredError failure that follows a failure of another class stays
\* silent, because an earlier TokenExpiredError failure had notified
C4_Witness ==
    \E c \in Coordinators :
        /\ IsReturn(ev, c) /\ ev.outcome = "TokenExpiredError" /\ ~ev.notified
        /\ ev.prev \in Failure \ {"TokenExpiredError"}
        /\ error_notified[c]

\* C5: a force refresh always issues a network call, whatever the schedule
\* policy says and whatever _last_update_minute holds; when the call succeeds
\* the cache is the snapshot parsed from that call and it is what is published.
C5_ForceRefreshFetches ==
    \A c \in Coordinators :
        /\ (ev.op = "force" /\ ev.c = c) =>
              /\ ev.net
              /\ ev.call = calls[c]
              /\ force_call[c] = ev.call
        /\ (ev.op = "force_return" /\ ev.c = c /\ ev.outcome = "success") =>
              /\ last_successful_data[c] = parsed_data(c, ev.call)
              /\ data[c] = parsed_data(c, ev.call)

\* a force refresh succeeded at an instant at which the schedule says "no
\* update", in the minute a tick had already fetched in
C5_Witness ==
    \E c \in Coordinators :
        /\ ev.op = "force_return" /\ ev.c = c /\ ev.outcome = "success"
        /\ ~should_update_now(c)
        /\ ticked[c] /\ tick_calls_now[c] = 1
        /\ ev.call = 2
        /\ data[c] = parsed_data(c, 2)

\* C6: the scheduled ticks of one minute (same day, same minute-of-day) issue
\* at most one network call in total, force refreshes in between or not.
C6_DedupSurvivesForce ==
    \A c \in Coordinators : tick_calls_now[c] <= 1

C8_UnscheduledTickIsFrame ==
    [][\A c \in Coordinators :
        (/\ IsTick(ev', c)
         /\ ~should_update_now(c)
         /\ last_successful_data[c] # None) =>
              /\ ev'.decision = "cached"
              /\ ~ev'.net
              /\ calls' = calls
              /\ tick_call' = tick_call
              /\ data'[c] = last_successful_data[c]
              /\ last_successful_data' = last_successful_data
              /\ last_update_minute' = last_update_minute
              /\ error_notified' = error_notified
              /\ persistent_notifications' = persistent_notifications
      ]_vars

\* an unscheduled tick returned the cache in a minute the coordinator had not
\* fetched in, while the notification flag was set
C8_Witness ==
    \E c \in Coordinators :
        /\ IsTick(ev, c) /\ ev.decision = "cached"
        /\ ~should_update_now(c)
        /\ last_update_minute[c] # current_minute
        /\ error_notified[c]
        /\ data[c] = last_successful_data[c] /\ data[c] # None

\* C9: once a coordinator holds a snapshot it always holds one; a failed fetch
\* cycle, of a tick or of a force refresh, leaves _last_successful_data as it
\* was, and the entities still read that snapshot.
C9_LastKnownGood ==
    [][\A c \in Coordinators :
        /\ last_successful_data[c] # None => last_successful_data'[c] # None
        /\ (IsReturn(ev', c) /\ ev'.outcome \in Failure) =>
              /\ last_successful_data'[c] = last_successful_data[c]
              /\ data'[c] = data[c]
        /\ data'[c] = last_successful_data'[c]
      ]_vars

\* a force refresh failed after a snapshot had been cached, and the snapshot
\* is still there
C9_Witness ==
    \E c \in Coordinators :
        /\ ev.op = "force_return" /\ ev.c = c /\ ev.outcome \in Failure
        /\ ev.call = 2
        /\ last_successful_data[c] = parsed_data(c, 1)
        /\ data[c] = parsed_data(c, 1)

\* C10: on every day the first tick in the minute of update_morning_time, and
\* the first in the minute of update_night_time, issues a network fetch.
C10_DailyUpdatesFire ==
    \A c \in Coordinators :
        (/\ IsTick(ev, c) /\ ev.first
         /\ \/ AtScheduledTime(c, options[c].update_morning_time)
            \/ AtScheduledTime(c, options[c].update_night_time)) => ev.net

-----------------------------------------------------------------------------
(* Properties of the schedule policy *)

DigitChar(n) ==
    CASE n = 0 -> "0" [] n = 1 -> "1" [] n = 2 -> "2" [] n = 3 -> "3" [] n = 4 -> "4"
      [] n = 5 -> "5" [] n = 6 -> "6" [] n = 7 -> "7" [] n = 8 -> "8" [] n = 9 -> "9"

\* "HH:MM" of an hour and a minute
TimeString(h, m) ==
    <<DigitChar(h \div 10), DigitChar(h % 10), ":", DigitChar(m \div 10), DigitChar(m % 10)>>

Evaluated(c) == ev.op = "should_update_now" /\ ev.c = c

\* the weekday-interval rule as the specification words it
WeekdayRule(t, o) ==
    /\ Weekday(t) \in {0, 1, 2, 3, 4}
    /\ t.hour \in o.update_weekday_start .. (o.update_weekday_end - 1)
    /\ \E k \in 0..59 : t.minute = k * o.update_weekday_interval

C12_DegenerateWindow ==
    \A c \in Coordinators :
        (Evaluated(c) /\ options[c].update_weekday_start >= options[c].update_weekday_end) =>
            /\ ev.result[1] \in BOOLEAN
            /\ ev.result[1] <=>
                  \/ <<now.hour, now.minute>> = parse_time(options[c].update_morning_time)
                  \/ <<now.hour, now.minute>> = parse_time(options[c].update_night_time)

\* a window from 21 to 9, asked on a Wednesday at 22:00 (a multiple of the
\* interval, at an hour not before the start), says "no update"
C12_Witness ==
    \E c \in Coordinators :
        /\ Evaluated(c)
        /\ options[c].update_weekday_start = 21 /\ options[c].update_weekday_end = 9
        /\ <<Weekday(now), now.hour, now.minute>> = <<2, 22, 0>>
        /\ ~ev.result[1]

-----------------------------------------------------------------------------
(* Properties of the API client *)

Returned(api) == ev.op = "api_return" /\ ev.api = api

\* the summary fields and the keys of the payload they are read from
SummaryKeys ==
    {<<"market_value", "MarketValue">>, <<"open_pl", "OpenPL">>,
     <<"open_pl_perc", "OpenPLPerc">>, <<"daily_pl", "DailyPL">>,
     <<"daily_pl_perc", "DailyPLPerc">>}

\* C13: get_portfolio_summary classifies an answer of the upstream: a status
\* other than 200 raises PortfolioError; system status "failed" raises
\* TokenExpiredError for code 1001, PortfolioNotFoundError for code 203 and
\* PortfolioError for any other code; an empty data list or a missing or empty
\* screen_data raises PortfolioError; any other answer returns the five fields
\* as the strings of the payload, with the payload itself.
C13_SummaryClassification ==
    (Returned("get_portfolio_summary") /\ ev.response.transport) =>
        LET r == ev.response
            res == ev.result
            failed == r.status = 200 /\ r.system_status = "failed"
            passed == r.status = 200 /\ r.system_status # "failed"
        IN  /\ r.status # 200 => res.raised /\ res.error = "PortfolioError"
            /\ (failed /\ r.message_error_code = "1001") =>
                   res.raised /\ res.error = "TokenExpiredError"
            /\ (failed /\ r.message_error_code = "203") =>
                   res.raised /\ res.error = "PortfolioNotFoundError"
            /\ (failed /\ r.message_error_code \notin {"1001", "203"}) =>
                   res.raised /\ res.error = "PortfolioError"
            /\ (passed /\ (r.data_len = 0 \/ r.screen_data = {})) =>
                   res.raised /\ res.error = "PortfolioError"
            /\ (passed /\ r.data_len > 0 /\ r.screen_data # {}) =>
                   /\ ~res.raised
                   /\ res.value.raw_data = r.screen_data
                   /\ \A k \in SummaryKeys : \A p \in r.screen_data :
                          p[1] = k[2] => res.value[k[1]] = p[2]

\* an answer that carries a summary, of which one field is returned as the
\* string of the payload and another, missing from the payload, as "0"
C13_Witness ==
    /\ Returned("get_portfolio_summary") /\ ev.response.transport
    /\ ~ev.result.raised
    /\ ev.result.value.market_value = <<"7", "5", "0">>
    /\ ev.result.value.daily_pl = <<"0">>

-----------------------------------------------------------------------------
(* Properties of the failure handling *)

\* C14: of the failures of a fetch cycle only TokenExpiredError notifies: a
\* cycle that ends with PortfolioNotFoundError, with a generic PortfolioError
\* or with any other exception (a timeout, a transport error) raises
\* UpdateFailed, emits no notification and leaves _error_notified and the
\* notifications as they were; a cycle that notifies ended with
\* TokenExpiredError.
C14_OnlyTokenExpiryNotifies ==
    [][\A c \in Coordinators : IsReturn(ev', c) =>
        /\ ev'.outcome \in {"PortfolioNotFoundError", "PortfolioError", "Exception"} =>
              /\ ev'.raises = "UpdateFailed"
              /\ ~ev'.notified
              /\ error_notified' = error_notified
              /\ persistent_notifications' = persistent_notifications
        /\ persistent_notifications' # persistent_notifications =>
              ev'.outcome = "TokenExpiredError"
        /\ (error_notified[c] # error_notified'[c]) =>
              ev'.outcome \in {"TokenExpiredError", "success"}
      ]_vars

\* a cycle ended with PortfolioNotFoundError before any notification: it
\* raised UpdateFailed, and no notification exists
C14_Witness ==
    \E c \in Coordinators :
        /\ IsReturn(ev, c) /\ ev.outcome = "PortfolioNotFoundError"
        /\ ev.raises = "UpdateFailed"
        /\ ~error_notified[c]
        /\ persistent_notifications = {}

\* C15: a fetch cycle that fails with TokenExpiredError raises an exception of
\* another class than a cycle that fails with PortfolioNotFoundError or
\* PortfolioError, and once a coordinator has had such a failure (its
\* notification exists) its cached snapshot is never replaced.
C15_TokenExpiryIsTerminal ==
    [][\A c \in Coordinators :
        /\ \A expired, other \in Responses :
              (/\ fetch_data(c, expired, 1).outcome = "TokenExpiredError"
               /\ fetch_data(c, other, 1).outcome \in {"PortfolioNotFoundError", "PortfolioError"}) =>
                  fetch_data(c, expired, 1).raises # fetch_data(c, other, 1).raises
        /\ notification_id(c) \in persistent_notifications =>
              last_successful_data'[c] = last_successful_data[c]
      ]_vars

-----------------------------------------------------------------------------
(* Properties of the setup of an entry *)

\* C16: the first refresh is mandatory and its failure ends the setup: setup
\* always starts with a fetch; a coordinator enters hass.data[DOMAIN] only in
\* the step in which its first refresh succeeds, and its platforms are set up
\* only after that; when the first refresh fails the entry is not ready,
\* nothing is registered and no platform is set up.
C16_FirstRefreshGatesSetup ==
    [][\A c \in Coordinators :
        /\ (setup[c] = "constructed" /\ setup'[c] # "constructed") =>
              /\ setup'[c] = "first_refresh"
              /\ ev'.net /\ tick_call'[c] # 0
        /\ (c \in hass_data' /\ c \notin hass_data) =>
              /\ setup[c] = "first_refresh"
              /\ IsReturn(ev', c) /\ ev'.outcome = "success"
              /\ data'[c] = parsed_data(c, ev'.call)
        /\ (c \in platforms' /\ c \notin platforms) =>
              /\ c \in hass_data
              /\ data[c] # None
        /\ (setup[c] = "first_refresh" /\ IsReturn(ev', c) /\ ev'.outcome \in Failure) =>
              /\ setup'[c] = "not_ready"
              /\ c \notin hass_data' /\ c \notin platforms'
        /\ setup'[c] \in {"constructed", "first_refresh", "not_ready"} =>
              c \notin hass_data' /\ c \notin platforms'
      ]_vars

\* the first refresh of an entry failed with a generic PortfolioError: the
\* entry is not ready, nothing is registered and no platform is set up
C16_Witness ==
    \E c \in Coordinators :
        /\ setup[c] = "not_ready"
        /\ IsReturn(ev, c) /\ ev.outcome = "PortfolioError"
        /\ hass_data = {} /\ platforms = {}
        /\ data[c] = None

-----------------------------------------------------------------------------
(* Properties of several coordinators *)

\* a step of coordinator c: a tick, a force refresh, or the return of one of
\* its network calls
StepOf(e, c) == e.op \in {"tick", "tick_return", "force", "force_return"} /\ e.c = c

\* C17: coordinators are independent: a tick, a force refresh or a failure of
\* one coordinator leaves _last_successful_data, _last_update_minute and
\* _error_notified of every other coordinator unchanged, in every interleaving.
C17_CoordinatorsIndependent ==
    [][\A c, d \in Coordinators : (c # d /\ StepOf(ev', c)) =>
        /\ last_successful_data'[d] = last_successful_data[d]
        /\ last_update_minute'[d] = last_update_minute[d]
        /\ error_notified'[d] = error_notified[d]
      ]_vars

\* a force refresh of one coordinator failed with TokenExpiredError while a
\* tick of the other was awaiting its call: the first holds the flag and the
\* sentinel minute, the other a clear flag and the minute of its tick
C17_Witness ==
    \E c, d \in Coordinators :
        /\ c # d
        /\ ev.op = "force_return" /\ ev.c = c /\ ev.outcome = "TokenExpiredError"
        /\ error_notified[c] /\ last_update_minute[c] = NoMinute
        /\ tick_call[d] # 0
        /\ ~error_notified[d] /\ last_update_minute[d] = current_minute

-----------------------------------------------------------------------------
(* Termination of a fetch cycle *)

\* C18: every tick and every force refresh ends: a network call awaited by the
\* tick task or by the button task is eventually no longer awaited; the step
\* that ends it ends the cycle with exactly one outcome, success or one class
\* of failure, and leaves the task idle, so the host can start the next tick.
C18_FetchTerminates ==
    /\ \A c \in OneEntry :
          /\ (tick_call[c] # 0) ~> (tick_call[c] = 0)
          /\ (force_call[c] # 0) ~> (force_call[c] = 0)
    /\ [][\A c \in Coordinators :
            /\ (tick_call[c] # 0 /\ tick_call'[c] # tick_call[c]) =>
                  /\ ev'.op = "tick_return" /\ ev'.c = c
                  /\ ev'.outcome \in {"success"} \cup Failure
                  /\ ev'.outcome = "success" <=> ev'.raises = "none"
                  /\ tick_call'[c] = 0
            /\ (force_call[c] # 0 /\ force_call'[c] # force_call[c]) =>
                  /\ ev'.op = "force_return" /\ ev'.c = c
                  /\ ev'.outcome \in {"success"} \cup Failure
                  /\ ev'.outcome = "success" <=> ev'.raises = "none"
                  /\ force_call'[c] = 0
       ]_vars

\* a tick whose call timed out has ended with a failure and the coordinator is
\* idle again, no call awaited
C18_Witness ==
    \E c \in Coordinators :
        /\ ev.op = "tick_return" /\ ev.c = c /\ ev.outcome = "Exception"
        /\ ev.raises = "UpdateFailed"
        /\ tick_call[c] = 0 /\ force_call[c] = 0

-----------------------------------------------------------------------------
(* Requests to the upstream *)

\* C19: nothing is retried inside a cycle or inside an operation of the
\* client: an invocation of login, get_portfolios or get_portfolio_summary has
\* issued exactly one request when it awaits the answer and when it has ended,
\* whatever the answer, a timeout included; a fetch cycle issues one request
\* when it starts and none when its call returns, whatever the outcome, and no
\* other step issues a request.
C19_OneRequestPerInvocation ==
    [][/\ ev'.op \in {"api_request", "api_return"} =>
              /\ ev'.requests = 1
              /\ calls' = calls
       /\ \A c \in Coordinators :
              /\ ((IsTick(ev', c) /\ ev'.decision = "fetch") \/ (ev'.op = "force" /\ ev'.c = c)) =>
                    /\ calls'[c] = calls[c] + 1
                    /\ ev'.call = calls'[c]
              /\ IsReturn(ev', c) =>
                    /\ calls'[c] = calls[c]
                    /\ ev'.call \in {tick_call[c], force_call[c]}
                    /\ ev'.call \in 1..calls[c]
              /\ calls'[c] # calls[c] =>
                    \/ IsTick(ev', c) /\ ev'.decision = "fetch"
                    \/ ev'.op = "force" /\ ev'.c = c
      ]_vars

\* the one call of a cycle timed out and the cycle ended as a failure: one
\* request has been issued, none was added
C19_Witness ==
    \E c \in Coordinators :
        /\ ev.op = "tick_return" /\ ev.c = c /\ ev.outcome = "Exception"
        /\ ev.call = 1 /\ calls[c] = 1
        /\ tick_call[c] = 0 /\ force_call[c] = 0

-----------------------------------------------------------------------------
(* Retry of a failed cycle *)

\* C20: after a fetch cycle has failed with a generic PortfolioError, a
\* transport error or a timeout, the next qualifying tick, the first tick of a
\* minute at which the schedule policy says "update" or at which no snapshot is
\* cached, issues a new fetch; and when that fetch succeeds the snapshot it
\* returned is cached and published.
C20_FailureRetriedByNextTick ==
    [][\A c \in Coordinators :
        /\ (/\ IsTick(ev', c) /\ ev'.first
            /\ prev_outcome[c] \in {"PortfolioError", "Exception"}
            /\ should_update_now(c) \/ last_successful_data[c] = None) =>
              /\ ev'.decision = "fetch" /\ ev'.net
              /\ tick_call'[c] = calls'[c]
        /\ (/\ ev'.op = "tick_return" /\ ev'.c = c /\ ev'.outcome = "success"
            /\ prev_outcome[c] \in {"PortfolioError", "Exception"}) =>
              /\ last_successful_data'[c] = parsed_data(c, ev'.call)
              /\ data'[c] = parsed_data(c, ev'.call)
      ]_vars

-----------------------------------------------------------------------------
(* Properties of login and get_portfolios *)

\* the answer lets login return: status 200, no error envelope, no
\* data.errors, a token in data
LoginAccepted(r) ==
    /\ r.status = 200
    /\ r.system_status # "error"
    /\ \A p \in r.data : p[1] # "errors"
    /\ \E p \in r.data : p[1] = "token"

UpstreamEntries(r) == IF r.data_len = 0 THEN <<>> ELSE r.portfolio

\* the entries of type "position", in the order of the list
RECURSIVE Positions(_)
Positions(entries) ==
    IF entries = <<>> THEN <<>>
    ELSE (IF <<"portfolioType", "position">> \in Head(entries)
          THEN <<Head(entries)>> ELSE <<>>) \o Positions(Tail(entries))

\* what get_portfolios returns for an answer it accepts
PortfoliosListed(r, res, position_only) ==
    /\ ~res.raised
    /\ res.value = IF position_only THEN Positions(UpstreamEntries(r))
                   ELSE UpstreamEntries(r)

-----------------------------------------------------------------------------
(* Properties of parse_european_number *)

Parsed == ev.op = "parse_european_number"

\* the string without whitespace, currency glyph and percent sign
Stripped(value) == SelectSeq(value, LAMBDA ch : ch \notin {" ", Euro, "%"})

\* the string with '.' dropped and ',' turned into '.'
Decimal(text) ==
    LET kept == SelectSeq(text, LAMBDA ch : ch # ".")
    IN  [i \in 1..Len(kept) |-> IF kept[i] = "," THEN "." ELSE kept[i]]

\* the number of a string of which `signs` leading characters are the sign
Signed(text, signs) ==
    LET parsed == float(Decimal(SubSeq(text, signs + 1, Len(text))))
    IN  IF parsed = ValueError THEN Zero
        ELSE IF signs > 0 /\ text[1] = "-" THEN Negate(parsed) ELSE parsed

\* the examples of the specification
NumberExamples ==
    /\ ev.value = <<"2", "4", "0", ".", "9", "3", "7", ",", "9", "8">> => ev.result = Finite(FALSE, 24093798, -2)
    /\ ev.value = <<"4", "1", ",", "7", "1", "%">> => ev.result = Finite(FALSE, 4171, -2)
    /\ ev.value = <<"-", "1", ".", "6", "1", "5", ",", "4", "7">> => ev.result = Finite(TRUE, 161547, -2)
    /\ ev.value = <<>> => ev.result = Zero
    /\ ev.value = <<"g", "a", "r", "b", "a", "g", "e">> => ev.result = Zero

\* C23 as claimed: parse_european_number never raises and gives what the
\* specified algorithm gives: strip whitespace, currency glyph and percent
\* sign, capture and remove one leading sign, drop '.', turn ',' into '.',
\* parse, reapply the sign; 0.0 for an empty or unparseable string.
C23_OneLeadingSign ==
    Parsed =>
        LET text == Stripped(ev.value)
        IN  /\ ev.result.kind # "ValueError"
            /\ ev.result = Signed(text, IF text # <<>> /\ text[1] \in {"+", "-"} THEN 1 ELSE 0)
            /\ NumberExamples

\* C23 amended: as claimed, except that all leading sign characters are
\* removed, not one, and the sign of the result is that of the first of them.
C23_LeadingSigns ==
    Parsed =>
        LET text == Stripped(ev.value)
            signs == IF \E i \in 1..Len(text) : text[i] \notin {"+", "-"}
                     THEN (CHOOSE i \in 1..Len(text) :
                              /\ text[i] \notin {"+", "-"}
                              /\ \A j \in 1..(i - 1) : text[j] \in {"+", "-"}) - 1
                     ELSE Len(text)
        IN  /\ ev.result.kind # "ValueError"
            /\ ev.result = Signed(text, signs)
            /\ NumberExamples

\* "-1.615,47" gave -1615.47
C23_Witness ==
    /\ Parsed
    /\ ev.value = <<"-", "1", ".", "6", "1", "5", ",", "4", "7">>
    /\ ev.result = [kind |-> "finite", neg |-> TRUE, mantissa |-> 161547, exponent |-> -2]

-----------------------------------------------------------------------------
(* Properties of the recorded minute *)

\* C24: a tick that fetches has recorded its minute-of-day in
\* _last_update_minute while its network call is still pending; the return of
\* the call, successful or failed, leaves the recorded minute alone; so (no
\* force refresh in between) a later tick of the same minute does not fetch
\* again after a failure.
C24_MinuteRecordedBeforeFetch ==
    [][\A c \in Coordinators :
        /\ (IsTick(ev', c) /\ ev'.net) =>
              /\ last_update_minute'[c] = current_minute
              /\ tick_call'[c] # 0
        /\ (ev'.op = "tick_return" /\ ev'.c = c) =>
              last_update_minute'[c] = last_update_minute[c]
        /\ last_tick'[c].fetched => last_update_minute'[c] = last_tick'[c].minute
        /\ (/\ IsTick(ev', c)
            /\ last_tick[c].fetched /\ last_tick[c].minute = current_minute
            /\ prev_outcome[c] \in Failure) =>
              /\ ~ev'.net
              /\ calls'[c] = calls[c]
      ]_vars

\* the second fetch of a coordinator, issued by a tick, failed, and the next
\* tick of that minute returned the cached snapshot of the first
C24_Witness ==
    \E c \in Coordinators :
        /\ IsTick(ev, c) /\ ev.decision = "cached" /\ ~ev.net
        /\ prev_outcome[c] \in Failure
        /\ calls[c] = 2
        /\ tick_calls_now[c] = 1
        /\ last_update_minute[c] = current_minute
        /\ data[c] = parsed_data(c, 1)

\* C25: a tick in the minute _last_update_minute holds, with no snapshot
\* cached, raises UpdateFailed("Waiting for scheduled update"): no network
\* call, no notification, and no field of the coordinator changes.
C25_WaitingTickIsFrame ==
    [][\A c \in Coordinators :
        (/\ IsTick(ev', c)
         /\ current_minute = last_update_minute[c]
         /\ last_successful_data[c] = None) =>
              /\ ev'.decision = "waiting"
              /\ ev'.raises = "UpdateFailed"
              /\ ~ev'.net /\ ~ev'.notified
              /\ calls'[c] = calls[c]
              /\ tick_call'[c] = 0
              /\ persistent_notifications' = persistent_notifications
              /\ last_successful_data'[c] = None
              /\ last_update_minute'[c] = last_update_minute[c]
              /\ error_notified'[c] = error_notified[c]
              /\ data'[c] = data[c]
      ]_vars

\* the first fetch failed and the next tick of that minute raised the waiting
\* condition
C25_Witness ==
    \E c \in Coordinators :
        /\ IsTick(ev, c) /\ ev.decision = "waiting" /\ ev.raises = "UpdateFailed"
        /\ last_successful_data[c] = None
        /\ last_update_minute[c] = current_minute
        /\ prev_outcome[c] \in Failure
        /\ calls[c] = 1

\* C26: _last_update_minute is -1 or a minute-of-day in 0..1439; it is -1 at
\* construction and from the start of a force refresh until the next tick that
\* fetches; the minute-of-day of no instant is -1.
C26_MinuteOrSentinel ==
    /\ \A c \in Coordinators : last_update_minute[c] = -1
    /\ [][\A c \in Coordinators :
            /\ last_update_minute'[c] \in {-1} \cup 0..1439
            /\ NoMinute = -1
            /\ current_minute \in 0..1439
            /\ current_minute' \in 0..1439
            /\ (ev'.op = "force" /\ ev'.c = c) => last_update_minute'[c] = -1
            /\ (last_update_minute[c] = -1 /\ last_update_minute'[c] # -1) =>
                  /\ IsTick(ev', c) /\ ev'.net
                  /\ last_update_minute'[c] = current_minute
       ]_vars

\* a force refresh started in the minute in which a tick had fetched (the
\* second call of the coordinator) and has reset the recorded minute
C26_Witness ==
    \E c \in Coordinators :
        /\ ev.op = "force" /\ ev.c = c
        /\ calls[c] = 2
        /\ tick_calls_now[c] = 1
        /\ last_update_minute[c] = NoMinute

\* C27: _error_notified is true exactly when a fetch has failed with
\* TokenExpiredError since the last successful fetch (or since construction):
\* false at construction, true after a fetch that fails with
\* TokenExpiredError, false after a fetch that succeeds, and left as it is by
\* every other step (a tick that returns the cache or waits, the start of a
\* fetch, a failure of another class).
C27_FlagTracksTokenExpiry ==
    /\ \A c \in Coordinators : ~error_notified[c]
    /\ [][\A c \in Coordinators :
            IF IsReturn(ev', c) /\ ev'.outcome = "TokenExpiredError"
            THEN error_notified'[c]
            ELSE IF IsReturn(ev', c) /\ ev'.outcome = "success"
            THEN ~error_notified'[c]
            ELSE error_notified'[c] = error_notified[c]
       ]_vars

\* a fetch failed with PortfolioError after one that had failed with
\* TokenExpiredError, and the flag is still set
C27_Witness ==
    \E c \in Coordinators :
        /\ IsReturn(ev, c)
        /\ ev.outcome = "PortfolioError" /\ ev.prev = "TokenExpiredError"
        /\ error_notified[c]
        /\ InFlight(c) = 0

-----------------------------------------------------------------------------
(* Properties of registered coordinators *)

\* C28: a coordinator stored in hass.data[DOMAIN] holds a cached snapshot in
\* every state; so no tick of a registered coordinator raises "Waiting for
\* scheduled update", and each of its ticks that does not fetch returns a
\* snapshot.
C28_RegisteredHoldsSnapshot ==
    /\ \A c \in hass_data : last_successful_data[c] # None
    /\ [][\A c \in hass_data' :
            /\ last_successful_data'[c] # None
            /\ IsTick(ev', c) =>
                  /\ ev'.decision # "waiting"
                  /\ ev'.raises = "none"
                  /\ ~ev'.net =>
                        /\ ev'.decision = "cached"
                        /\ data'[c] # None
                        /\ data'[c] = last_successful_data'[c]
       ]_vars

\* a fetch of a registered coordinator failed, and the next tick of that
\* minute returned the snapshot
C28_Witness ==
    \E c \in hass_data :
        /\ setup[c] = "loaded"
        /\ IsTick(ev, c) /\ ev.decision = "cached"
        /\ prev_outcome[c] \in Failure
        /\ last_update_minute[c] = current_minute
        /\ data[c] # None

-----------------------------------------------------------------------------
(* Properties of overlapping fetch cycles *)

\* C29: the test of _error_notified, the notification and the assignment of
\* _error_notified are one step; so when the calls of a force refresh and of a
\* tick are pending together and both end with TokenExpiredError, the first
\* to end notifies only if the flag was clear and sets it, and the second
\* does not notify: at most one notification before the next successful fetch.
C29_OverlapNotifiesOnce ==
    [][\A c \in Coordinators :
        (IsReturn(ev', c) /\ ev'.outcome = "TokenExpiredError") =>
            /\ ev'.notified <=> ~error_notified[c]
            /\ error_notified'[c]
            /\ InFlight(c) = 2 =>
                  /\ ev'.notified => ~notified_since_success[c]
                  /\ notified_since_success'[c] = (notified_since_success[c] \/ ev'.notified)
            /\ (IsReturn(ev, c) /\ ev.outcome = "TokenExpiredError") => ~ev'.notified
      ]_vars

\* the call of a tick was pending when a force refresh issued the second call;
\* the force refresh failed with TokenExpiredError and notified, then the tick
\* failed with TokenExpiredError and did not
C29_Witness ==
    \E c \in Coordinators :
        /\ ev.op = "tick_return" /\ ev.c = c /\ ev.call = 1
        /\ calls[c] = 2
        /\ ev.outcome = "TokenExpiredError" /\ ev.prev = "TokenExpiredError"
        /\ ~ev.notified
        /\ error_notified[c]
        /\ notification_id(c) \in persistent_notifications
        /\ InFlight(c) = 0

-----------------------------------------------------------------------------
(* Properties of the onboarding flow *)

\* C30: a config entry is created only by a flow in which a login has
\* succeeded, only for a portfolio id of the list get_portfolios returned last
\* to that flow, and it holds the token, device id and email of that flow's
\* latest successful login with the id and a name of that portfolio; selecting
\* a portfolio id that an entry holds aborts the flow and creates no entry.
C30_EntryOnlyAfterLogin ==
    [][/\ \A entry \in config_entries' \ config_entries :
            /\ flow.step = "select_portfolio"
            /\ flow.login # None
            /\ entry.data.x_token = flow.login.token
            /\ entry.data.x_udid = flow.login.x_udid
            /\ entry.data.email = flow.login.email
            /\ flow.fetched # None
            /\ \E i \in 1..Len(flow.fetched.list) :
                  /\ HasKey(flow.fetched.list[i], "portfolio_id")
                  /\ Get(flow.fetched.list[i], "portfolio_id", 0) = entry.data.portfolio_id
                  /\ HasKey(flow.fetched.list[i], "portfolio_name")
                  /\ Get(flow.fetched.list[i], "portfolio_name", "") = entry.data.portfolio_name
            /\ ev'.result = "create_entry"
            /\ config_entries' = config_entries \cup {entry}
            /\ \A other \in config_entries :
                  other.data.portfolio_id # entry.data.portfolio_id
       /\ (ev'.op = "step_select_portfolio" /\ ev'.result = "abort") =>
            /\ ev'.reason = "already_configured"
            /\ config_entries' = config_entries
            /\ flow'.step = "done"
       /\ \A e1, e2 \in config_entries' :
            e1.data.portfolio_id = e2.data.portfolio_id => e1 = e2
      ]_vars

\* the flow was aborted on the selection of the portfolio an entry holds
C30_Witness ==
    /\ ev.op = "step_select_portfolio"
    /\ ev.result = "abort" /\ ev.reason = "already_configured"
    /\ flow.step = "done"
    /\ Cardinality(config_entries) = 1
    /\ \E entry \in config_entries :
          /\ entry.unique_id = <<"1", "2">>
          /\ entry.data.portfolio_id = 12
          /\ entry.data.x_token = "t1"
          /\ flow.login.token = "t2"

\* the classes a failure of the portfolio listing shows as: a status other
\* than 200 or a failed envelope (PortfolioError, or TokenExpiredError for
\* code 1001), and a list whose entries lack a key (KeyError)
ListingFailure == {"PortfolioError", "TokenExpiredError", "KeyError"}

\* C31: every failure of the portfolio listing in async_step_select_portfolio
\* (status other than 200, failed envelope with any error code, 1001
\* included, malformed payload) shows the login form with the error
\* cannot_connect; none leaves the step as an exception.
C31_ListingFailureShowsLogin ==
    [][(ev'.op = "get_portfolios_return" /\ ev'.reason \in ListingFailure) =>
            /\ ev'.result = "form"
            /\ flow'.step = "user"
            /\ flow'.errors = "cannot_connect"
            /\ flow'.awaiting = None
      ]_vars

-----------------------------------------------------------------------------
(* Properties of the migration *)

Migrated == ev.op = "async_migrate_entry"

\* C32: migrating a version-1 entry keeps every key and value of its data,
\* adds portfolio_name only when the key is absent (the title, or
\* "Portfolio <id>" when the title is empty) and sets version 2; migrating a
\* version-2 entry changes nothing; a second migration changes nothing; every
\* call returns True.
C32_MigrationCompletesData ==
    Migrated =>
        /\ ev.result = TRUE
        /\ ev.entry.title = ev.before.title
        /\ ev.before.data \subseteq ev.entry.data
        /\ ev.before.version = 1 =>
              /\ ev.entry.version = 2
              /\ HasKey(ev.before.data, "portfolio_name") =>
                    ev.entry.data = ev.before.data
              /\ ~HasKey(ev.before.data, "portfolio_name") =>
                    /\ ev.entry.data \ ev.before.data =
                          {<<"portfolio_name",
                             IF ev.before.title # <<>> THEN ev.before.title
                             ELSE IF \E id \in {7, 12} : <<"portfolio_id", id>> \in ev.before.data
                             THEN <<"P", "o", "r", "t", "f", "o", "l", "i", "o", " ">>
                                  \o (IF <<"portfolio_id", 7>> \in ev.before.data
                                      THEN <<"7">> ELSE <<"1", "2">>)
                             ELSE <<"P", "o", "r", "t", "f", "o", "l", "i", "o", " ", "0">>
                           >>}
        /\ ev.before.version = 2 => ev.entry = ev.before
        /\ ev.runs = 2 => ev.entry = ev.before

\* a version-1 entry without title and name, for portfolio 12, was migrated
\* twice and holds the name "Portfolio 12"
C32_Witness ==
    /\ Migrated /\ ev.runs = 2
    /\ ev.stored.version = 1 /\ ev.stored.title = <<>>
    /\ ~HasKey(ev.stored.data, "portfolio_name")
    /\ <<"portfolio_id", 12>> \in ev.stored.data
    /\ ev.entry.version = 2
    /\ <<"portfolio_name", <<"P", "o", "r", "t", "f", "o", "l", "i", "o", " ", "1", "2">>>>
          \in ev.entry.data

-----------------------------------------------------------------------------
(* Properties of the identifiers of coordinators *)

\* C33: two coordinators of different portfolios have different notification
\* ids and different coordinator names; so a notification of one, emitted
\* while the notification of the other is showing, does not replace it.
C33_IdentifiersDistinct ==
    [][\A c, d \in Coordinators :
        (/\ c # d
         /\ IsReturn(ev', c) /\ ev'.notified
         /\ notified_since_success[d]) =>
              /\ notification_id(c) # notification_id(d)
              /\ coordinator_name(c) # coordinator_name(d)
              /\ ~ev'.renotified
              /\ Cardinality(persistent_notifications') =
                    Cardinality(persistent_notifications) + 1
      ]_vars

====
